---- MODULE Spec2Model ----
(***************************************************************************)
(* A model of hypergopher/downcache: the in-memory cache store, the        *)
(* bbolt-backed index with its taxonomy counts, the SQLite and bbolt+bleve *)
(* stores' Create, and the DownCache coordinator that keeps a store in     *)
(* step with the markdown files on disk.                                   *)
(***************************************************************************)
EXTENDS Integers, Sequences, FiniteSets, TLC

VARIABLES
    posts,      \* MemoryCacheStore.posts: key "type:slug" -> Post
    ret,        \* the last call on the in-memory store: operation, arguments, result
    files,      \* the markdown files under rootDir: path -> content (a Post's name)
    call,       \* per caller of the coordinator: the operation in progress, its locals
    walk,       \* per caller: the goroutine started by Walk for its SyncAll
    boltPosts,  \* bbolt bucket "posts" of the index: PostID -> Post
    boltTax,    \* bbolt bucket "taxonomies" of the index: "taxonomy:term" -> count
    bleveDocs,  \* the bleve index: the set of PostIDs indexed
    idx,        \* the last call on the bbolt-backed index
    sqlRows,    \* SQLiteStore: the rows of the posts table
    sqlNextId,  \* SQLiteStore: the next AUTOINCREMENT id
    bbsPosts,   \* BBoltStore: bucket "posts"
    bbsBleve,   \* BBoltStore: the bleve index
    three       \* the last Create given to the three backends, with their results

vars == <<posts, ret, files, call, walk, boltPosts, boltTax, bleveDocs, idx,
          sqlRows, sqlNextId, bbsPosts, bbsBleve, three>>

memVars   == <<posts, ret>>
coordVars == <<files, call, walk>>
boltVars  == <<boltPosts, boltTax, bleveDocs, idx>>
threeVars == <<sqlRows, sqlNextId, bbsPosts, bbsBleve, three>>

-----------------------------------------------------------------------------
(* Values *)

PostTypes == {"articles", "pages"}
Slugs     == {"a", "b"}
Names     == {"v1", "v2"}

\* errors.New / fmt.Errorf values, by their message
NoErr        == "nil"
ErrExists    == "post already exists"
ErrNotFound  == "post not found"

NoPost == [PostType |-> "", Slug |-> "", Name |-> ""]

Post(t, s, n) == [PostType |-> t, Slug |-> s, Name |-> n]

AllPosts == {Post(t, s, n) : t \in PostTypes, s \in Slugs, n \in Names}

\* a Go map: a function whose domain is the set of keys present
EmptyMap == [k \in {} |-> NoPost]

MapPut(m, k, v) == [x \in DOMAIN m \cup {k} |-> IF x = k THEN v ELSE m[x]]

MapDelete(m, k) == [x \in DOMAIN m \ {k} |-> m[x]]

-----------------------------------------------------------------------------
(* MemoryCacheStore *)

makeKey(postType, slug) == postType \o ":" \o slug

\* Create with the existence check dropped: the new post overwrites
MemCreateNoCheck(ps, post) ==
    [posts |-> MapPut(ps, makeKey(post.PostType, post.Slug), post),
     post  |-> post, err |-> NoErr]

MemCreate(ps, post) ==
    LET key == makeKey(post.PostType, post.Slug) IN
    IF key \in DOMAIN ps
    THEN [posts |-> ps, post |-> NoPost, err |-> ErrExists]
    ELSE [posts |-> MapPut(ps, key, post), post |-> post, err |-> NoErr]

\* Update that leaves the record under the old key when the identity changes
MemUpdateKeepsOld(ps, oldType, oldSlug, post) ==
    LET key == makeKey(oldType, oldSlug) IN
    IF key \notin DOMAIN ps
    THEN [posts |-> ps, err |-> ErrNotFound]
    ELSE [posts |-> MapPut(ps, makeKey(post.PostType, post.Slug), post),
          err   |-> NoErr]

MemUpdate(ps, oldType, oldSlug, post) ==
    LET key == makeKey(oldType, oldSlug) IN
    IF key \notin DOMAIN ps
    THEN [posts |-> ps, err |-> ErrNotFound]
    ELSE [posts |-> MapPut(MapDelete(ps, key), makeKey(post.PostType, post.Slug), post),
          err   |-> NoErr]

MemDelete(ps, postType, slug) ==
    LET key == makeKey(postType, slug) IN
    IF key \notin DOMAIN ps
    THEN [posts |-> ps, err |-> ErrNotFound]
    ELSE [posts |-> MapDelete(ps, key), err |-> NoErr]

MemGet(ps, postType, slug) ==
    LET key == makeKey(postType, slug) IN
    IF key \notin DOMAIN ps
    THEN [post |-> NoPost, err |-> ErrNotFound]
    ELSE [post |-> ps[key], err |-> NoErr]

NoRet == [op |-> "none", oldType |-> "", oldSlug |-> "", arg |-> NoPost,
          post |-> NoPost, err |-> NoErr, pre |-> EmptyMap]

\* the calls a client makes on the store, each under the store's lock
StoreCreate(p) ==
    LET r == MemCreate(posts, p) IN
    /\ posts' = r.posts
    /\ ret' = [NoRet EXCEPT !.op = "Create", !.arg = p, !.post = r.post,
                            !.err = r.err, !.pre = posts]

StoreUpdate(oldType, oldSlug, p) ==
    LET r == MemUpdate(posts, oldType, oldSlug, p) IN
    /\ posts' = r.posts
    /\ ret' = [NoRet EXCEPT !.op = "Update", !.oldType = oldType, !.oldSlug = oldSlug,
                            !.arg = p, !.err = r.err, !.pre = posts]

StoreDelete(t, s) ==
    LET r == MemDelete(posts, t, s) IN
    /\ posts' = r.posts
    /\ ret' = [NoRet EXCEPT !.op = "Delete", !.oldType = t, !.oldSlug = s,
                            !.err = r.err, !.pre = posts]

StoreGet(t, s) ==
    LET r == MemGet(posts, t, s) IN
    /\ posts' = posts
    /\ ret' = [NoRet EXCEPT !.op = "Get", !.oldType = t, !.oldSlug = s,
                            !.post = r.post, !.err = r.err, !.pre = posts]

-----------------------------------------------------------------------------
(* LocalFileSystemManager: the markdown files under rootDir *)

rootDir == "content"

buildPath(postType, slug) == rootDir \o "/" \o postType \o "/" \o slug \o ".md"

\* os errors: the file is missing, or the operating system refused the call
ENOENT == "no such file or directory"
EIO    == "input/output error"

EmptyFiles == [k \in {} |-> ""]

\* ok = FALSE: the operating system fails the call (MkdirAll, WriteFile, Remove, Rename)
FsWrite(fl, post, ok) ==
    IF ~ok THEN [files |-> fl, err |-> EIO]
    ELSE [files |-> MapPut(fl, buildPath(post.PostType, post.Slug), post.Name),
          err   |-> NoErr]

FsDelete(fl, postType, slug, ok) ==
    LET path == buildPath(postType, slug) IN
    IF ~ok THEN [files |-> fl, err |-> EIO]
    ELSE IF path \notin DOMAIN fl THEN [files |-> fl, err |-> ENOENT]
    ELSE [files |-> MapDelete(fl, path), err |-> NoErr]

FsMove(fl, oldType, oldSlug, newType, newSlug, ok) ==
    LET oldPath == buildPath(oldType, oldSlug)
        newPath == buildPath(newType, newSlug) IN
    IF ~ok THEN [files |-> fl, err |-> EIO]
    ELSE IF oldPath \notin DOMAIN fl THEN [files |-> fl, err |-> ENOENT]
    ELSE [files |-> MapPut(MapDelete(fl, oldPath), newPath, fl[oldPath]),
          err   |-> NoErr]

FsRead(fl, postType, slug, ok) ==
    LET path == buildPath(postType, slug) IN
    IF ~ok THEN [post |-> NoPost, err |-> EIO]
    ELSE IF path \notin DOMAIN fl THEN [post |-> NoPost, err |-> ENOENT]
    ELSE [post |-> Post(postType, slug, fl[path]), err |-> NoErr]

\* filepath.Walk visits the files in lexical order of their paths
WalkOrder == << <<"articles", "a">>, <<"pages", "a">> >>

\* the first file at or after position pos that exists; Len + 1 when there is none
NextFile(fl, pos) ==
    LET here == {i \in pos..Len(WalkOrder) :
                    buildPath(WalkOrder[i][1], WalkOrder[i][2]) \in DOMAIN fl} IN
    IF here = {} THEN Len(WalkOrder) + 1
    ELSE CHOOSE i \in here : \A j \in here : i <= j

-----------------------------------------------------------------------------
(* DownCache, the coordinator of a FileSystemManager and a store *)

Callers == {"c1", "c2"}

\* an error is the chain of its messages, outermost first; nil is the empty chain
NilErr == << >>
Wrap(msg, err) == <<msg>> \o err
OsErr(e) == <<e>>

Idle == [op |-> "none", pc |-> "idle", oldType |-> "", oldSlug |-> "",
         post |-> NoPost, got |-> NoPost, err |-> NilErr, log |-> << >>,
         agreed |-> TRUE]

\* cancelled: the context given to Walk is done
NoWalk == [state |-> "off", pos |-> 1, post |-> NoPost, err |-> NilErr,
           cancelled |-> FALSE]

AllIdle == \A c \in Callers : call[c].pc = "idle"

Identity(t, s) == <<t, s>>

Moved(k) == Identity(k.oldType, k.oldSlug) # Identity(k.post.PostType, k.post.Slug)

Finish(k, post, err) == [k EXCEPT !.pc = "done", !.got = post, !.err = err]

\* the calls made on the collaborators so far, each with the error it returned
Logged(k, what, err) == [k EXCEPT !.log = Append(@, [call |-> what, err |-> err])]

\* filesystem and store agree on an identity: the file is there exactly when the
\* record is, and the record is the post of the file
Agree(fl, ps, t, s) ==
    LET path == buildPath(t, s)
        key  == makeKey(t, s) IN
    /\ (path \in DOMAIN fl) <=> (key \in DOMAIN ps)
    /\ (path \in DOMAIN fl /\ key \in DOMAIN ps) => ps[key] = Post(t, s, fl[path])

\* the identities a call names: its post's, the old one of Update, Delete and Get, and
\* every identity of the tree for SyncAll
Touched(k) ==
    CASE k.op = "Create"  -> {<<k.post.PostType, k.post.Slug>>}
      [] k.op = "Update"  -> {<<k.oldType, k.oldSlug>>, <<k.post.PostType, k.post.Slug>>}
      [] k.op = "Delete"  -> {<<k.oldType, k.oldSlug>>}
      [] k.op = "Get"     -> {<<k.oldType, k.oldSlug>>}
      [] k.op = "SyncAll" -> {<<WalkOrder[i][1], WalkOrder[i][2]>> : i \in 1..Len(WalkOrder)}
      [] OTHER            -> {}

AllAgree(fl, ps, k) == \A i \in Touched(k) : Agree(fl, ps, i[1], i[2])

\* a call as it starts: whether filesystem and store agree on what it names is kept
Started(k) == [k EXCEPT !.agreed = AllAgree(files, posts, k)]

\* ---- Create
BeginCreate(c, p) ==
    /\ call[c].pc = "idle"
    /\ call' = [call EXCEPT ![c] =
           Started([Idle EXCEPT !.op = "Create", !.pc = "c_write", !.post = p])]
    /\ UNCHANGED <<files, posts, walk>>

CreateWrite(c) ==
    /\ call[c].pc = "c_write"
    /\ \E ok \in BOOLEAN :
         LET a == call[c]
             r == FsWrite(files, a.post, ok)
             k == Logged(a, "fs.Write", r.err) IN
         /\ files' = r.files
         /\ call' = [call EXCEPT ![c] =
                IF r.err # NoErr
                THEN Finish(k, NoPost, Wrap("error writing to filesystem", OsErr(r.err)))
                ELSE [k EXCEPT !.pc = "c_store"]]
    /\ UNCHANGED <<posts, walk>>

CreateStore(c) ==
    /\ call[c].pc = "c_store"
    /\ LET a == call[c]
           r == MemCreate(posts, a.post)
           k == Logged(a, "store.Create", r.err) IN
       /\ posts' = r.posts
       /\ call' = [call EXCEPT ![c] =
              IF r.err # NoErr
              THEN [k EXCEPT !.pc = "c_rollback", !.err = OsErr(r.err)]
              ELSE Finish(k, r.post, NilErr)]
    /\ UNCHANGED <<files, walk>>

\* Create whose failed compensation is not reported: the store error alone is returned
CreateRollbackSwallowed(c) ==
    /\ call[c].pc = "c_rollback"
    /\ \E ok \in BOOLEAN :
         LET a == call[c]
             r == FsDelete(files, a.post.PostType, a.post.Slug, ok)
             k == Logged(a, "fs.Delete", r.err) IN
         /\ files' = r.files
         /\ call' = [call EXCEPT ![c] = Finish(k, NoPost, Wrap("error adding to store", k.err))]
    /\ UNCHANGED <<posts, walk>>

CreateRollback(c) ==
    /\ call[c].pc = "c_rollback"
    /\ \E ok \in BOOLEAN :
         LET a == call[c]
             r == FsDelete(files, a.post.PostType, a.post.Slug, ok)
             k == Logged(a, "fs.Delete", r.err) IN
         /\ files' = r.files
         /\ call' = [call EXCEPT ![c] =
                IF r.err # NoErr
                THEN Finish(k, NoPost,
                            Wrap("failed to add to store and rollback failed",
                                 OsErr(r.err) \o k.err))
                ELSE Finish(k, NoPost, Wrap("error adding to store", k.err))]
    /\ UNCHANGED <<posts, walk>>

\* ---- Update
BeginUpdate(c, oldType, oldSlug, p) ==
    /\ call[c].pc = "idle"
    /\ call' = [call EXCEPT ![c] =
           LET k == [Idle EXCEPT !.op = "Update", !.oldType = oldType,
                                 !.oldSlug = oldSlug, !.post = p] IN
           Started([k EXCEPT !.pc = IF Moved(k) THEN "u_move" ELSE "u_write"])]
    /\ UNCHANGED <<files, posts, walk>>

UpdateMove(c) ==
    /\ call[c].pc = "u_move"
    /\ \E ok \in BOOLEAN :
         LET a == call[c]
             r == FsMove(files, a.oldType, a.oldSlug, a.post.PostType, a.post.Slug, ok)
             k == Logged(a, "fs.Move", r.err) IN
         /\ files' = r.files
         /\ call' = [call EXCEPT ![c] =
                IF r.err # NoErr
                THEN Finish(k, NoPost, Wrap("error moving file", OsErr(r.err)))
                ELSE [k EXCEPT !.pc = "u_write"]]
    /\ UNCHANGED <<posts, walk>>

UpdateWrite(c) ==
    /\ call[c].pc = "u_write"
    /\ \E ok \in BOOLEAN :
         LET a == call[c]
             r == FsWrite(files, a.post, ok)
             k == Logged(a, "fs.Write", r.err) IN
         /\ files' = r.files
         /\ call' = [call EXCEPT ![c] =
                IF r.err # NoErr
                THEN Finish(k, NoPost, Wrap("error writing to filesystem", OsErr(r.err)))
                ELSE [k EXCEPT !.pc = "u_store"]]
    /\ UNCHANGED <<posts, walk>>

UpdateStore(c) ==
    /\ call[c].pc = "u_store"
    /\ LET a == call[c]
           r == MemUpdate(posts, a.oldType, a.oldSlug, a.post)
           k == Logged(a, "store.Update", r.err) IN
       /\ posts' = r.posts
       /\ call' = [call EXCEPT ![c] =
              IF r.err = NoErr THEN Finish(k, NoPost, NilErr)
              ELSE IF Moved(k) THEN [k EXCEPT !.pc = "u_rollback", !.err = OsErr(r.err)]
              ELSE Finish(k, NoPost, Wrap("error updating in store", OsErr(r.err)))]
    /\ UNCHANGED <<files, walk>>

\* Update without the compensating move: the store error is returned as it is
UpdateNoRollback(c) ==
    /\ call[c].pc = "u_rollback"
    /\ call' = [call EXCEPT ![c] =
           Finish(@, NoPost, Wrap("error updating in store", @.err))]
    /\ UNCHANGED <<files, posts, walk>>

UpdateRollback(c) ==
    /\ call[c].pc = "u_rollback"
    /\ \E ok \in BOOLEAN :
         LET a == call[c]
             r == FsMove(files, a.post.PostType, a.post.Slug, a.oldType, a.oldSlug, ok)
             k == Logged(a, "fs.Move", r.err) IN
         /\ files' = r.files
         /\ call' = [call EXCEPT ![c] =
                IF r.err # NoErr
                THEN Finish(k, NoPost,
                            Wrap("failed to update store and rollback failed",
                                 OsErr(r.err) \o k.err))
                ELSE Finish(k, NoPost, Wrap("error updating in store", k.err))]
    /\ UNCHANGED <<posts, walk>>

\* ---- Delete
BeginDelete(c, postType, slug) ==
    /\ call[c].pc = "idle"
    /\ call' = [call EXCEPT ![c] =
           Started([Idle EXCEPT !.op = "Delete", !.pc = "d_fs",
                                !.oldType = postType, !.oldSlug = slug])]
    /\ UNCHANGED <<files, posts, walk>>

\* Delete that goes on to the store whatever the filesystem answered
DeleteFsUnchecked(c) ==
    /\ call[c].pc = "d_fs"
    /\ \E ok \in BOOLEAN :
         LET a == call[c]
             r == FsDelete(files, a.oldType, a.oldSlug, ok)
             k == Logged(a, "fs.Delete", r.err) IN
         /\ files' = r.files
         /\ call' = [call EXCEPT ![c] = [k EXCEPT !.pc = "d_store"]]
    /\ UNCHANGED <<posts, walk>>

DeleteFs(c) ==
    /\ call[c].pc = "d_fs"
    /\ \E ok \in BOOLEAN :
         LET a == call[c]
             r == FsDelete(files, a.oldType, a.oldSlug, ok)
             k == Logged(a, "fs.Delete", r.err) IN
         /\ files' = r.files
         /\ call' = [call EXCEPT ![c] =
                IF r.err # NoErr
                THEN Finish(k, NoPost, Wrap("error deleting from filesystem", OsErr(r.err)))
                ELSE [k EXCEPT !.pc = "d_store"]]
    /\ UNCHANGED <<posts, walk>>

DeleteStore(c) ==
    /\ call[c].pc = "d_store"
    /\ LET a == call[c]
           r == MemDelete(posts, a.oldType, a.oldSlug)
           k == Logged(a, "store.Delete", r.err) IN
       /\ posts' = r.posts
       /\ call' = [call EXCEPT ![c] =
              IF r.err # NoErr
              THEN Finish(k, NoPost, Wrap("error deleting from store", OsErr(r.err)))
              ELSE Finish(k, NoPost, NilErr)]
    /\ UNCHANGED <<files, walk>>

\* ---- Get
BeginGet(c, postType, slug) ==
    /\ call[c].pc = "idle"
    /\ call' = [call EXCEPT ![c] =
           Started([Idle EXCEPT !.op = "Get", !.pc = "g_store",
                                !.oldType = postType, !.oldSlug = slug])]
    /\ UNCHANGED <<files, posts, walk>>

GetStore(c) ==
    /\ call[c].pc = "g_store"
    /\ LET a == call[c]
           r == MemGet(posts, a.oldType, a.oldSlug)
           k == Logged(a, "store.Get", r.err) IN
       call' = [call EXCEPT ![c] =
           IF r.err = NoErr THEN Finish(k, r.post, NilErr)
           ELSE [k EXCEPT !.pc = "g_read"]]
    /\ UNCHANGED <<files, posts, walk>>

GetRead(c) ==
    /\ call[c].pc = "g_read"
    /\ \E ok \in BOOLEAN :
         LET a == call[c]
             r == FsRead(files, a.oldType, a.oldSlug, ok)
             k == Logged(a, "fs.Read", r.err) IN
         call' = [call EXCEPT ![c] =
             IF r.err # NoErr
             THEN Finish(k, NoPost,
                         Wrap("post not found in store or filesystem", OsErr(r.err)))
             ELSE [k EXCEPT !.pc = "g_refill", !.post = r.post]]
    /\ UNCHANGED <<files, posts, walk>>

\* newPost, err := cm.store.Create(ctx, post); the error is printed; return newPost, nil
GetRefill(c) ==
    /\ call[c].pc = "g_refill"
    /\ LET a == call[c]
           r == MemCreate(posts, a.post)
           k == Logged(a, "store.Create", r.err) IN
       /\ posts' = r.posts
       /\ call' = [call EXCEPT ![c] = Finish(k, r.post, NilErr)]
    /\ UNCHANGED <<files, walk>>

\* ---- SyncAll, and the goroutine Walk starts for it
BeginSyncAll(c) ==
    /\ call[c].pc = "idle"
    /\ call' = [call EXCEPT ![c] = Started([Idle EXCEPT !.op = "SyncAll", !.pc = "s_recv"])]
    /\ walk' = [walk EXCEPT ![c] = [NoWalk EXCEPT !.state = "running"]]
    /\ UNCHANGED <<files, posts>>

\* the walker reaches its next file, reads it and blocks on "posts <- post"; at the
\* end of the tree, or on an error (sent to the buffered errs), it closes both channels
WalkStep(c) ==
    /\ walk[c].state = "running"
    /\ LET w == walk[c]
           i == NextFile(files, w.pos) IN
       IF i > Len(WalkOrder)
       THEN walk' = [walk EXCEPT ![c] = [w EXCEPT !.state = "closed", !.pos = i]]
       ELSE \E ok \in BOOLEAN :
              LET r == FsRead(files, WalkOrder[i][1], WalkOrder[i][2], ok) IN
              walk' = [walk EXCEPT ![c] =
                  IF r.err # NoErr
                  THEN [w EXCEPT !.state = "closed", !.err = OsErr(r.err)]
                  ELSE [w EXCEPT !.state = "sending", !.post = r.post, !.pos = i + 1]]
    /\ UNCHANGED <<files, posts, call>>

\* for post := range posts
SyncRecv(c) ==
    /\ call[c].pc = "s_recv"
    /\ walk[c].state = "sending"
    /\ call' = [call EXCEPT ![c] = [@ EXCEPT !.pc = "s_create", !.post = walk[c].post]]
    /\ walk' = [walk EXCEPT ![c] = [@ EXCEPT !.state = "running", !.post = NoPost]]
    /\ UNCHANGED <<files, posts>>

SyncPostsClosed(c) ==
    /\ call[c].pc = "s_recv"
    /\ walk[c].state = "closed"
    /\ call' = [call EXCEPT ![c] = [@ EXCEPT !.pc = "s_errs", !.post = NoPost]]
    /\ UNCHANGED <<files, posts, walk>>

SyncCreate(c) ==
    /\ call[c].pc = "s_create"
    /\ LET k == call[c]
           r == MemCreate(posts, k.post) IN
       /\ posts' = r.posts
       /\ call' = [call EXCEPT ![c] =
              [k EXCEPT !.pc = IF r.err # NoErr THEN "s_update" ELSE "s_recv"]]
    /\ UNCHANGED <<files, walk>>

SyncUpdate(c) ==
    /\ call[c].pc = "s_update"
    /\ LET k == call[c]
           r == MemUpdate(posts, k.post.PostType, k.post.Slug, k.post) IN
       /\ posts' = r.posts
       /\ call' = [call EXCEPT ![c] =
              IF r.err # NoErr
              THEN Finish(k, NoPost, Wrap("error updating existing post", OsErr(r.err)))
              ELSE [k EXCEPT !.pc = "s_recv"]]
    /\ UNCHANGED <<files, walk>>

\* for err := range errs { return ... }; return nil
SyncErrs(c) ==
    /\ call[c].pc = "s_errs"
    /\ walk[c].state = "closed"
    /\ call' = [call EXCEPT ![c] =
           IF walk[c].err # NilErr
           THEN Finish(@, NoPost, Wrap("error walking filesystem", walk[c].err))
           ELSE Finish(@, NoPost, NilErr)]
    /\ UNCHANGED <<files, posts, walk>>

\* the caller takes the result; the next call of this caller starts afresh
Return(c) ==
    /\ call[c].pc = "done"
    /\ call' = [call EXCEPT ![c] = Idle]
    /\ UNCHANGED <<files, posts, walk>>

\* ---- markdown files put under rootDir, or removed, by hand between calls
ExternalWrite(p) ==
    /\ AllIdle
    /\ files' = FsWrite(files, p, TRUE).files
    /\ UNCHANGED <<posts, call, walk>>

ExternalRemove(postType, slug) ==
    /\ AllIdle
    /\ buildPath(postType, slug) \in DOMAIN files
    /\ files' = FsDelete(files, postType, slug, TRUE).files
    /\ UNCHANGED <<posts, call, walk>>

\* the posts the coordinator is driven with: one slug under each post type
CoordSlugs == {"a"}
CoordPosts == {p \in AllPosts : p.Slug \in CoordSlugs}

CoordBegin(c) ==
    \/ \E p \in CoordPosts : BeginCreate(c, p)
    \/ \E t \in PostTypes, s \in CoordSlugs, p \in CoordPosts : BeginUpdate(c, t, s, p)
    \/ \E t \in PostTypes, s \in CoordSlugs : BeginDelete(c, t, s)
    \/ \E t \in PostTypes, s \in CoordSlugs : BeginGet(c, t, s)
    \/ BeginSyncAll(c)

CoordStep(c) ==
    \/ CreateWrite(c) \/ CreateStore(c) \/ CreateRollback(c)
    \/ UpdateMove(c) \/ UpdateWrite(c) \/ UpdateStore(c) \/ UpdateRollback(c)
    \/ DeleteFs(c) \/ DeleteStore(c)
    \/ GetStore(c) \/ GetRead(c) \/ GetRefill(c)
    \/ WalkStep(c) \/ SyncRecv(c) \/ SyncPostsClosed(c)
    \/ SyncCreate(c) \/ SyncUpdate(c) \/ SyncErrs(c)
    \/ Return(c)

External ==
    \/ \E p \in CoordPosts : ExternalWrite(p)
    \/ \E t \in PostTypes, s \in CoordSlugs : ExternalRemove(t, s)

-----------------------------------------------------------------------------
(* The bbolt + bleve index: bucket "posts", bucket "taxonomies", the bleve index *)

TaxNames == {"tags", "tag"}
Terms    == {"a", "b", "c"}

\* a document: its Taxonomies give, for each taxonomy, the terms of its list; a list
\* holds a term once and its order does not matter to the counts
Doc(postType, slug, taxonomies) ==
    [PostType |-> postType, Slug |-> slug, Taxonomies |-> taxonomies]

NoDoc == Doc("", "", [t \in TaxNames |-> {}])

PageID(postType, slug) == postType \o "/" \o slug

ID(doc) == PageID(doc.PostType, doc.Slug)

\* the documents handed to the index: two pages, "tags" any subset of the terms, or
\* "tag" with the single term "a"
BoltSlugs == {"a", "b"}
BoltDocs ==
    {Doc("pages", s, [t \in TaxNames |-> IF t = "tags" THEN ts ELSE {}]) :
        s \in BoltSlugs, ts \in SUBSET Terms}
    \cup {Doc("pages", s, [t \in TaxNames |-> IF t = "tag" THEN {"a"} ELSE {}]) :
        s \in BoltSlugs}

EmptyBucket == [k \in {} |-> NoDoc]
EmptyCounts == [k \in {} |-> 0]

\* (taxonomy, term) pairs of a taxonomies mapping
Pairs(taxonomies) == {pr \in TaxNames \X Terms : pr[2] \in taxonomies[pr[1]]}

taxKey(taxonomy, term) == taxonomy \o ":" \o term

updateTaxonomyCount(tax, taxonomy, term, delta) ==
    LET key   == taxKey(taxonomy, term)
        count == IF key \in DOMAIN tax THEN tax[key] ELSE 0
        moved == count + delta
        new   == IF moved < 0 THEN 0 ELSE moved IN
    IF new = 0 THEN MapDelete(tax, key) ELSE MapPut(tax, key, new)

\* updateTaxonomyCount for each pair of a set, with the same delta
RECURSIVE UpdateCounts(_, _, _)
UpdateCounts(tax, pairs, delta) ==
    IF pairs = {} THEN tax
    ELSE LET pr == CHOOSE x \in pairs : TRUE IN
         UpdateCounts(updateTaxonomyCount(tax, pr[1], pr[2], delta), pairs \ {pr}, delta)

GetPost(ps, pathID) ==
    IF pathID \in DOMAIN ps THEN [doc |-> ps[pathID], err |-> NoErr]
    ELSE [doc |-> NoDoc, err |-> ErrNotFound]

\* the bolt transaction of IndexPost: the terms of the current page that the new
\* document does not have are decremented, the document is put, and every term of the
\* new document is incremented
IndexPostTx(ps, tax, currentPage, doc) ==
    LET gone == IF currentPage = NoDoc THEN {}
                ELSE {pr \in Pairs(currentPage.Taxonomies) :
                         pr[2] \notin doc.Taxonomies[pr[1]]}
        tax1 == UpdateCounts(tax, gone, -1) IN
    [posts |-> MapPut(ps, ID(doc), doc),
     tax   |-> UpdateCounts(tax1, Pairs(doc.Taxonomies), 1)]

\* the bolt transaction of DeIndexPost
DeIndexPostTx(ps, tax, pathID, doc) ==
    [posts |-> MapDelete(ps, pathID),
     tax   |-> UpdateCounts(tax, Pairs(doc.Taxonomies), -1)]

\* bytes of the characters that occur in the keys of the taxonomies bucket
ByteOf(ch) ==
    CASE ch = ":" -> 58 [] ch = "a" -> 97 [] ch = "b" -> 98 [] ch = "c" -> 99
      [] ch = "g" -> 103 [] ch = "s" -> 115 [] ch = "t" -> 116

HasPrefix(s, prefix) ==
    Len(prefix) <= Len(s) /\ SubSeq(s, 1, Len(prefix)) = prefix

TrimPrefix(s, prefix) ==
    IF HasPrefix(s, prefix) THEN SubSeq(s, Len(prefix) + 1, Len(s)) ELSE s

\* s sorts before t in the byte order of the bucket's keys
KeyLess(s, t) ==
    \E i \in 1..Len(t) :
      /\ Len(s) >= i - 1
      /\ SubSeq(s, 1, i - 1) = SubSeq(t, 1, i - 1)
      /\ \/ Len(s) = i - 1
         \/ ByteOf(SubSeq(s, i, i)) < ByteOf(SubSeq(t, i, i))

\* cursor.Seek(taxonomy + ":"), then every key while it has the prefix taxonomy
GetTaxonomyTerms(tax, taxonomy) ==
    LET prefix == taxonomy \o ":" IN
    {TrimPrefix(k, prefix) :
        k \in {key \in DOMAIN tax : ~KeyLess(key, prefix) /\ HasPrefix(key, taxonomy)}}

NoIdx == [op |-> "none", id |-> "", err |-> NoErr]

\* the largest count the index is driven to
MaxCount == 3

IndexPost(doc) ==
    LET currentPage == GetPost(boltPosts, ID(doc)).doc
        tx == IndexPostTx(boltPosts, boltTax, currentPage, doc) IN
    /\ \A key \in DOMAIN tx.tax : tx.tax[key] <= MaxCount
    /\ boltPosts' = tx.posts
    /\ boltTax' = tx.tax
    /\ bleveDocs' = bleveDocs \cup {ID(doc)}
    /\ idx' = [op |-> "IndexPost", id |-> ID(doc), err |-> NoErr]

DeIndexPost(pathID) ==
    LET got == GetPost(boltPosts, pathID) IN
    IF got.err # NoErr
    THEN /\ idx' = [op |-> "DeIndexPost", id |-> pathID, err |-> "failed to get post"]
         /\ UNCHANGED <<boltPosts, boltTax, bleveDocs>>
    ELSE LET tx == DeIndexPostTx(boltPosts, boltTax, pathID, got.doc) IN
         /\ boltPosts' = tx.posts
         /\ boltTax' = tx.tax
         /\ bleveDocs' = bleveDocs \ {pathID}
         /\ idx' = [op |-> "DeIndexPost", id |-> pathID, err |-> NoErr]

-----------------------------------------------------------------------------
(* Create on the three backends, given the same posts *)

PostPathID(postType, slug) == postType \o "/" \o slug

\* SQLiteStore.Create: REPLACE INTO removes the rows that collide on one of the unique
\* indexes (post_id; post_type, slug) and inserts the new row under a fresh id.  The
\* posts of this specification have no properties and no taxonomies.
SqlCreate(rows, nextId, post) ==
    LET postID == PostPathID(post.PostType, post.Slug)
        kept   == {r \in rows : /\ r.post_id # postID
                                /\ <<r.post_type, r.slug>> # <<post.PostType, post.Slug>>} IN
    [rows   |-> kept \cup {[id |-> nextId, post_id |-> postID,
                            post_type |-> post.PostType, slug |-> post.Slug,
                            name |-> post.Name]},
     nextId |-> nextId + 1,
     err    |-> NoErr]

\* BBoltStore.Create: the post is put under its PostID, whatever is there, and indexed
\* in bleve.  The posts of this specification have no taxonomies, so the two loops over
\* the terms do nothing.
BbsCreate(ps, bleve, post) ==
    LET postID == PostPathID(post.PostType, post.Slug) IN
    [posts |-> MapPut(ps, postID, post),
     bleve |-> bleve \cup {postID},
     err   |-> NoErr]

NoThree == [op |-> "none", oldType |-> "", oldSlug |-> "", arg |-> NoPost,
            mem |-> NoErr, sql |-> NoErr, bbs |-> NoErr]

\* the number of rows the posts table is given
MaxRows == 4

\* one Create of the conformance suite, run against each backend
ThreeCreate(p) ==
    LET m == MemCreate(posts, p)
        q == SqlCreate(sqlRows, sqlNextId, p)
        b == BbsCreate(bbsPosts, bbsBleve, p) IN
    /\ sqlNextId <= MaxRows
    /\ posts' = m.posts
    /\ sqlRows' = q.rows
    /\ sqlNextId' = q.nextId
    /\ bbsPosts' = b.posts
    /\ bbsBleve' = b.bleve
    /\ three' = [NoThree EXCEPT !.op = "Create", !.arg = p,
                                 !.mem = m.err, !.sql = q.err, !.bbs = b.err]

ErrUnique == "UNIQUE constraint failed"

\* SQLiteStore.Update: UPDATE ... SET name, slug, post_type WHERE post_id = post.PostID.
\* post_id itself is not among the columns set; no row matching is no error; a row
\* that would share (post_type, slug) with another row fails the unique index.
SqlUpdate(rows, postID, post) ==
    LET hit   == {r \in rows : r.post_id = postID}
        rest  == rows \ hit
        moved == {[r EXCEPT !.name = post.Name, !.slug = post.Slug,
                            !.post_type = post.PostType] : r \in hit} IN
    IF hit # {} /\ \E r \in rest : <<r.post_type, r.slug>> = <<post.PostType, post.Slug>>
    THEN [rows |-> rows, err |-> ErrUnique]
    ELSE [rows |-> rest \cup moved, err |-> NoErr]

\* SQLiteStore.Delete: DELETE ... WHERE post_id = ?; no row matching is no error
SqlDelete(rows, postID) ==
    [rows |-> {r \in rows : r.post_id # postID}, err |-> NoErr]

\* SQLiteStore.GetPostByPath: SELECT ... WHERE post_id = ?
SqlGet(rows, postID) ==
    LET hit == {r \in rows : r.post_id = postID} IN
    IF hit = {} THEN [post |-> NoPost, err |-> ErrNotFound]
    ELSE LET r == CHOOSE x \in hit : TRUE IN
         [post |-> Post(r.post_type, r.slug, r.name), err |-> NoErr]

\* BBoltStore.GetBySlug
BbsGet(ps, slug) ==
    IF slug \in DOMAIN ps THEN [post |-> ps[slug], err |-> NoErr]
    ELSE [post |-> NoPost, err |-> ErrNotFound]

\* BBoltStore.Delete: the post is read first; a missing post ends the call
BbsDelete(ps, bleve, slug) ==
    IF BbsGet(ps, slug).err # NoErr
    THEN [posts |-> ps, bleve |-> bleve, err |-> "failed to get post"]
    ELSE [posts |-> MapDelete(ps, slug), bleve |-> bleve \ {slug}, err |-> NoErr]

NoMethod == "no such method"

\* one Update of the conformance suite; the post given to SQLiteStore.Update carries
\* the PostID of the record it replaces.  BBoltStore has no Update.
ThreeUpdate(oldType, oldSlug, p) ==
    LET m == MemUpdate(posts, oldType, oldSlug, p)
        q == SqlUpdate(sqlRows, PostPathID(oldType, oldSlug), p) IN
    /\ posts' = m.posts
    /\ sqlRows' = q.rows
    /\ three' = [NoThree EXCEPT !.op = "Update", !.oldType = oldType, !.oldSlug = oldSlug,
                                 !.arg = p, !.mem = m.err, !.sql = q.err, !.bbs = NoMethod]
    /\ UNCHANGED <<sqlNextId, bbsPosts, bbsBleve>>

\* one Delete of the conformance suite
ThreeDelete(postType, slug) ==
    LET m == MemDelete(posts, postType, slug)
        q == SqlDelete(sqlRows, PostPathID(postType, slug))
        b == BbsDelete(bbsPosts, bbsBleve, PostPathID(postType, slug)) IN
    /\ posts' = m.posts
    /\ sqlRows' = q.rows
    /\ bbsPosts' = b.posts
    /\ bbsBleve' = b.bleve
    /\ three' = [NoThree EXCEPT !.op = "Delete", !.oldType = postType, !.oldSlug = slug,
                                 !.mem = m.err, !.sql = q.err, !.bbs = b.err]
    /\ UNCHANGED sqlNextId

-----------------------------------------------------------------------------
(* Initial state and specifications *)

MemInit   == posts = EmptyMap /\ ret = NoRet
CoordInit == /\ files = EmptyFiles
             /\ call = [c \in Callers |-> Idle]
             /\ walk = [c \in Callers |-> NoWalk]
BoltInit  == /\ boltPosts = EmptyBucket /\ boltTax = EmptyCounts
             /\ bleveDocs = {} /\ idx = NoIdx
ThreeInit == /\ sqlRows = {} /\ sqlNextId = 1
             /\ bbsPosts = EmptyMap /\ bbsBleve = {} /\ three = NoThree

Init == MemInit /\ CoordInit /\ BoltInit /\ ThreeInit

\* the calls a second caller makes while another call is in progress
OtherBegin(c) ==
    \/ \E t \in PostTypes, s \in CoordSlugs : BeginDelete(c, t, s)
    \/ \E t \in PostTypes, s \in CoordSlugs : BeginGet(c, t, s)

OtherStep(c) ==
    \/ DeleteFs(c) \/ DeleteStore(c)
    \/ GetStore(c) \/ GetRead(c) \/ GetRefill(c)
    \/ Return(c)

\* two callers of the coordinator running concurrently: c1 makes any call, c2 makes
\* Get and Delete calls; each call of a collaborator is one step
NextCoord ==
    /\ \/ CoordBegin("c1") \/ CoordStep("c1")
       \/ OtherBegin("c2") \/ OtherStep("c2")
       \/ External
    /\ UNCHANGED <<ret, boltVars, threeVars>>

SpecCoord == Init /\ [][NextCoord]_vars

\* one call of the coordinator at a time
NextCoordSeq ==
    /\ \/ CoordBegin("c1") \/ CoordStep("c1")
       \/ External
    /\ UNCHANGED <<ret, boltVars, threeVars>>

SpecCoordSeq == Init /\ [][NextCoordSeq]_vars

-----------------------------------------------------------------------------
(* Properties of the coordinator *)

Done(c, op) == call[c].pc = "done" /\ call[c].op = op

Entry(what, err) == [call |-> what, err |-> err]

IsPrefix(s, t) == Len(s) <= Len(t) /\ \A i \in 1..Len(s) : s[i] = t[i]

Calls(k) == [i \in 1..Len(k.log) |-> k.log[i].call]

OnDisk(t, s) == buildPath(t, s) \in DOMAIN files
InStore(t, s) == makeKey(t, s) \in DOMAIN posts

\* C2: when Store.Create fails after the file was written (and the compensating
\* delete goes through), Create returns the store error, the file is gone, and a Get
\* of that identity finds it neither in the store nor on the filesystem.
C2_CreateRollbackLeavesNothing ==
    \A c \in Callers :
      (/\ Done(c, "Create")
       /\ Len(call[c].log) = 3
       /\ call[c].log[2].err # NoErr
       /\ call[c].log[3] = Entry("fs.Delete", NoErr))
      => LET p == call[c].post IN
         /\ call[c].err = Wrap("error adding to store", OsErr(call[c].log[2].err))
         /\ ~OnDisk(p.PostType, p.Slug)
         /\ FsRead(files, p.PostType, p.Slug, TRUE).err # NoErr
         /\ MemGet(posts, p.PostType, p.Slug).err # NoErr

IsWalkErr(err) == err # NilErr /\ err[1] = "error walking filesystem"

\* C3: a SyncAll that returns without an enumeration error has offered every file of
\* the walk to the store: no file is left unvisited or waiting in the walker.
C3_SyncAllStoreErrorKeepsWalking ==
    \A c \in Callers :
      (Done(c, "SyncAll") /\ ~IsWalkErr(call[c].err))
      => /\ walk[c].state # "sending"
         /\ NextFile(files, walk[c].pos) > Len(WalkOrder)

StoreHasFiles ==
    \A i \in 1..Len(WalkOrder) :
      LET t == WalkOrder[i][1]
          s == WalkOrder[i][2] IN
      OnDisk(t, s) =>
        /\ InStore(t, s)
        /\ posts[makeKey(t, s)] = Post(t, s, files[buildPath(t, s)])

StoreHasOnlyFiles ==
    \A key \in DOMAIN posts : OnDisk(posts[key].PostType, posts[key].Slug)

\* C4: after SyncAll returns nil the store holds every file of the filesystem in its
\* current version, and nothing else.
C4_SyncAllRederivesStore ==
    \A c \in Callers :
      (Done(c, "SyncAll") /\ call[c].err = NilErr)
      => (StoreHasFiles /\ StoreHasOnlyFiles)

\* C8: a Get that misses the store and reads the file returns that post with a nil
\* error, whether or not the refill of the store succeeds; a Get that hits the store
\* returns the store's post.
C8_GetReturnsThePost ==
    \A c \in Callers :
      Done(c, "Get") =>
        /\ (call[c].log[1].err = NoErr =>
              /\ call[c].err = NilErr
              /\ call[c].got # NoPost
              /\ Len(call[c].log) = 1)
        /\ (Len(call[c].log) = 3 =>
              /\ Calls(call[c]) = <<"store.Get", "fs.Read", "store.Create">>
              /\ call[c].err = NilErr
              /\ call[c].got = call[c].post
              /\ call[c].got # NoPost)


UpdateCalls(k) ==
    IF Moved(k) THEN <<"fs.Move", "fs.Write", "store.Update", "fs.Move">>
    ELSE <<"fs.Write", "store.Update">>

\* every call but the last one returned nil
OnlyLastFailed(k) == \A i \in 1..(Len(k.log) - 1) : k.log[i].err = NoErr

StoreUpdateFailedAfterMove(k) ==
    /\ Moved(k)
    /\ Len(k.log) >= 3
    /\ k.log[3].call = "store.Update"
    /\ k.log[3].err # NoErr

UpdateOrder(k) ==
    /\ IsPrefix(Calls(k), UpdateCalls(k))
    /\ Len(k.log) >= 1
    /\ (Len(k.log) <= 3 => OnlyLastFailed(k))
    /\ (k.err = NilErr <=> (Calls(k) = SubSeq(UpdateCalls(k), 1, Len(UpdateCalls(k)) - 
                                                 (IF Moved(k) THEN 1 ELSE 0))
                            /\ k.log[Len(k.log)].err = NoErr))

\* C9 as stated: Update calls Move (identity changed), Write, Store.Update in this
\* order, and whenever Store.Update fails after the move the file is back at the old
\* identity, gone from the new one, and the store error is returned.
C9_UpdateAlwaysMovedBack ==
    \A c \in Callers :
      Done(c, "Update") =>
        LET k == call[c] IN
        /\ UpdateOrder(k)
        /\ (StoreUpdateFailedAfterMove(k) =>
              /\ OnDisk(k.oldType, k.oldSlug)
              /\ ~OnDisk(k.post.PostType, k.post.Slug)
              /\ k.err[Len(k.err)] = k.log[3].err)

\* C9: Update calls Move (identity changed), Write, Store.Update in this order; when
\* Store.Update fails after the move, the reverse move is attempted: if it succeeds
\* the file is at the old identity and not at the new one and the store error is
\* returned as "error updating in store"; if it fails the file stays at the new
\* identity and the returned error carries both the move error and the store error.
C9_UpdateOrderAndRollback ==
    \A c \in Callers :
      Done(c, "Update") =>
        LET k == call[c] IN
        /\ UpdateOrder(k)
        /\ (StoreUpdateFailedAfterMove(k) =>
              /\ Len(k.log) = 4
              /\ IF k.log[4].err = NoErr
                 THEN /\ OnDisk(k.oldType, k.oldSlug)
                      /\ ~OnDisk(k.post.PostType, k.post.Slug)
                      /\ k.err = Wrap("error updating in store", OsErr(k.log[3].err))
                 ELSE /\ OnDisk(k.post.PostType, k.post.Slug)
                      /\ ~OnDisk(k.oldType, k.oldSlug)
                      /\ k.err = Wrap("failed to update store and rollback failed",
                                      <<k.log[4].err, k.log[3].err>>))

C9_Witness ==
    \E c \in Callers :
      /\ Done(c, "Update")
      /\ StoreUpdateFailedAfterMove(call[c])
      /\ Len(call[c].log) = 4
      /\ call[c].log[4].err = NoErr
      /\ OnDisk(call[c].oldType, call[c].oldSlug)

\* C10: Delete calls the filesystem first and the store second; a failed filesystem
\* delete ends the call with the store not called; a failed store delete is returned
\* with the file still gone and no further filesystem call; after a nil return the
\* identity is on neither the filesystem nor in the store.
C10_DeleteFilesystemFirst ==
    \A c \in Callers :
      Done(c, "Delete") =>
        LET k == call[c] IN
        /\ IsPrefix(Calls(k), <<"fs.Delete", "store.Delete">>)
        /\ Len(k.log) >= 1
        /\ (k.log[1].err # NoErr =>
              /\ Len(k.log) = 1
              /\ k.err = Wrap("error deleting from filesystem", OsErr(k.log[1].err)))
        /\ (k.log[1].err = NoErr =>
              /\ Len(k.log) = 2
              /\ ~OnDisk(k.oldType, k.oldSlug)
              /\ ~InStore(k.oldType, k.oldSlug)
              /\ k.err = IF k.log[2].err = NoErr THEN NilErr
                         ELSE Wrap("error deleting from store", OsErr(k.log[2].err)))

C10_Witness ==
    \E c \in Callers :
      /\ Done(c, "Delete")
      /\ Len(call[c].log) = 2
      /\ call[c].log[2].err = ErrNotFound
      /\ call[c].err = Wrap("error deleting from store", OsErr(ErrNotFound))
      /\ ~OnDisk(call[c].oldType, call[c].oldSlug)

-----------------------------------------------------------------------------
(* The in-memory store on its own *)

\* the posts given to the store: two post types, two slugs, two versions, and two
\* identities whose keys coincide ("articles:a" + "b" and "articles" + "a:b")
MemIdentities ==
    {<<t, s>> : t \in PostTypes, s \in Slugs} \cup {<<"articles:a", "b">>, <<"articles", "a:b">>}
MemPosts == {Post(i[1], i[2], n) : i \in MemIdentities, n \in Names}

NextMem ==
    /\ \/ \E p \in MemPosts : StoreCreate(p)
       \/ \E i \in MemIdentities, p \in MemPosts : StoreUpdate(i[1], i[2], p)
       \/ \E i \in MemIdentities : StoreDelete(i[1], i[2])
       \/ \E i \in MemIdentities : StoreGet(i[1], i[2])
    /\ UNCHANGED <<coordVars, boltVars, threeVars>>

SpecMem == Init /\ [][NextMem]_vars

\* the identity (postType, slug) is the identity of a stored post
Stored(ps, postType, slug) ==
    \E key \in DOMAIN ps : ps[key].PostType = postType /\ ps[key].Slug = slug

\* C5: a Create whose (postType, slug) is already stored returns already-exists and
\* leaves the store as it was, so Get of the identity still returns the first record;
\* no two stored posts share a (postType, slug).
C5_IdentityUniqueness ==
    /\ (ret.op = "Create" /\ Stored(ret.pre, ret.arg.PostType, ret.arg.Slug)) =>
          /\ ret.err = ErrExists
          /\ ret.post = NoPost
          /\ posts = ret.pre
          /\ MemGet(posts, ret.arg.PostType, ret.arg.Slug)
               = [post |-> ret.pre[makeKey(ret.arg.PostType, ret.arg.Slug)], err |-> NoErr]
          /\ Stored(posts, ret.arg.PostType, ret.arg.Slug)
    /\ \A k1, k2 \in DOMAIN posts :
          (posts[k1].PostType = posts[k2].PostType /\ posts[k1].Slug = posts[k2].Slug)
            => k1 = k2

C5_Witness ==
    /\ ret.op = "Create"
    /\ ret.err = ErrExists
    /\ Stored(ret.pre, ret.arg.PostType, ret.arg.Slug)
    /\ ret.pre[makeKey(ret.arg.PostType, ret.arg.Slug)] # ret.arg
    /\ posts[makeKey(ret.arg.PostType, ret.arg.Slug)] # ret.arg

-----------------------------------------------------------------------------
(* The bbolt + bleve index on its own *)

NextBolt ==
    /\ \/ \E doc \in BoltDocs : IndexPost(doc)
       \/ \E s \in BoltSlugs : DeIndexPost(PageID("pages", s))
    /\ UNCHANGED <<memVars, coordVars, threeVars>>

SpecBolt == Init /\ [][NextBolt]_vars

CountOf(tax, taxonomy, term) ==
    IF taxKey(taxonomy, term) \in DOMAIN tax THEN tax[taxKey(taxonomy, term)] ELSE 0

Carriers(ps, taxonomy, term) ==
    {id \in DOMAIN ps : term \in ps[id].Taxonomies[taxonomy]}

\* C1: for every (taxonomy, term) the count under "taxonomy:term" is the number of
\* stored posts that carry the term; no count is negative, no entry has count zero,
\* and GetTaxonomyTerms lists only terms that a stored post carries.
C1_TaxonomyCountInvariant ==
    /\ \A t \in TaxNames, term \in Terms :
          CountOf(boltTax, t, term) = Cardinality(Carriers(boltPosts, t, term))
    /\ \A key \in DOMAIN boltTax : boltTax[key] > 0
    /\ \A t \in TaxNames, term \in Terms :
          term \in GetTaxonomyTerms(boltTax, t) => Carriers(boltPosts, t, term) # {}

\* C7: re-indexing a stored post changes the count of a term only when the term is in
\* the symmetric difference of the old and the new terms: minus one for a term that
\* went, plus one for a term that came, nothing for a term that stayed.
C7_UpdateDiffCorrectness ==
    [][ (idx'.op = "IndexPost" /\ idx'.id \in DOMAIN boltPosts) =>
          LET old == boltPosts[idx'.id].Taxonomies
              new == boltPosts'[idx'.id].Taxonomies IN
          \A t \in TaxNames, term \in Terms :
             CountOf(boltTax', t, term) - CountOf(boltTax, t, term)
               = (IF term \in new[t] \ old[t] THEN 1 ELSE 0)
                 - (IF term \in old[t] \ new[t] THEN 1 ELSE 0) ]_vars

-----------------------------------------------------------------------------
(* The three backends side by side *)

NextThree ==
    /\ \E p \in AllPosts : ThreeCreate(p)
    /\ UNCHANGED <<ret, coordVars, boltVars>>

SpecThree == Init /\ [][NextThree]_vars

\* the records a backend holds, as (postType, slug, name)
MemRecords == {<<posts[k].PostType, posts[k].Slug, posts[k].Name>> : k \in DOMAIN posts}
SqlRecords == {<<r.post_type, r.slug, r.name>> : r \in sqlRows}
BbsRecords == {<<bbsPosts[k].PostType, bbsPosts[k].Slug, bbsPosts[k].Name>> :
                  k \in DOMAIN bbsPosts}

\* C6: given the same Create calls the SQLite backend and the bbolt + bleve backend
\* succeed and fail where the in-memory backend does, and hold the same records.
C6_BackendsSubstitutable ==
    /\ three.sql = three.mem
    /\ three.bbs = three.mem
    /\ SqlRecords = MemRecords
    /\ BbsRecords = MemRecords


-----------------------------------------------------------------------------
(* Inconsistent states *)

CreateCompensationFailed(k) ==
    /\ k.op = "Create" /\ Len(k.log) = 3
    /\ k.log[2].call = "store.Create" /\ k.log[2].err # NoErr
    /\ k.log[3].call = "fs.Delete"    /\ k.log[3].err # NoErr

UpdateCompensationFailed(k) ==
    /\ k.op = "Update" /\ Len(k.log) = 4
    /\ k.log[3].call = "store.Update" /\ k.log[3].err # NoErr
    /\ k.log[4].call = "fs.Move"      /\ k.log[4].err # NoErr

\* a failed compensation of Create or Update is returned with the store error
CompensationFailureSurfaced ==
    \A c \in Callers :
      call[c].pc = "done" =>
        LET k == call[c] IN
        /\ CreateCompensationFailed(k) =>
             k.err = Wrap("failed to add to store and rollback failed",
                          <<k.log[3].err, k.log[2].err>>)
        /\ UpdateCompensationFailed(k) =>
             k.err = Wrap("failed to update store and rollback failed",
                          <<k.log[4].err, k.log[3].err>>)

\* C11 as stated: a failed compensation of Create or Update is returned together with
\* the store error, and after any call that returns nil the filesystem and the store
\* agree on the identities the call names.
C11_NilMeansAgreement ==
    /\ CompensationFailureSurfaced
    /\ \A c \in Callers :
         (call[c].pc = "done" /\ call[c].err = NilErr)
           => AllAgree(files, posts, call[c])

\* C11: a failed compensation of Create or Update is returned together with the store
\* error; and a call made by a single caller when the filesystem and the store agree on
\* the identities it names leaves them in agreement whenever it returns nil.
C11_InconsistentStateSurfaced ==
    /\ CompensationFailureSurfaced
    /\ \A c \in Callers :
         (call[c].pc = "done" /\ call[c].err = NilErr /\ call[c].agreed)
           => AllAgree(files, posts, call[c])

C11_Witness ==
    \E c \in Callers :
      /\ call[c].pc = "done"
      /\ CreateCompensationFailed(call[c])
      /\ call[c].err[1] = "failed to add to store and rollback failed"
      /\ ~AllAgree(files, posts, call[c])


-----------------------------------------------------------------------------
(* Create, Update and Delete on the three backends *)

\* the posts the backends are driven with: one slug under each post type
NextStores ==
    /\ \/ \E p \in CoordPosts : ThreeCreate(p)
       \/ \E t \in PostTypes, s \in CoordSlugs, p \in CoordPosts : ThreeUpdate(t, s, p)
       \/ \E t \in PostTypes, s \in CoordSlugs : ThreeDelete(t, s)
    /\ UNCHANGED <<ret, coordVars, boltVars>>

SpecStores == Init /\ [][NextStores]_vars

SqlStored(rows, postType, slug) ==
    \E r \in rows : r.post_id = PostPathID(postType, slug)

\* C12: an Update whose old PostID is not stored and a Delete of a PostID that is not
\* stored return an error and change nothing, in the in-memory store, in the SQLite
\* store and (Delete) in the bbolt store.
C12_MissingIdentityIsNotFound ==
    [][ LET t == three'.oldType
            s == three'.oldSlug IN
        /\ (three'.op \in {"Update", "Delete"} /\ makeKey(t, s) \notin DOMAIN posts)
             => (three'.mem = ErrNotFound /\ posts' = posts)
        /\ (three'.op \in {"Update", "Delete"} /\ ~SqlStored(sqlRows, t, s))
             => (three'.sql # NoErr /\ sqlRows' = sqlRows)
        /\ (three'.op = "Delete" /\ PostPathID(t, s) \notin DOMAIN bbsPosts)
             => (three'.bbs # NoErr /\ bbsPosts' = bbsPosts /\ bbsBleve' = bbsBleve)
      ]_vars


\* C13: after a successful Update of a stored post to another postType or slug, Get at
\* the new PostID returns the updated post and Get at the old PostID fails, in the
\* in-memory store and in the SQLite store.
C13_UpdateMovesTheRecord ==
    [][ LET t == three'.oldType
            s == three'.oldSlug
            p == three'.arg IN
        (three'.op = "Update" /\ <<t, s>> # <<p.PostType, p.Slug>>) =>
          /\ (makeKey(t, s) \in DOMAIN posts /\ three'.mem = NoErr) =>
                /\ MemGet(posts', p.PostType, p.Slug) = [post |-> p, err |-> NoErr]
                /\ MemGet(posts', t, s).err # NoErr
          /\ (SqlStored(sqlRows, t, s) /\ three'.sql = NoErr) =>
                /\ SqlGet(sqlRows', PostPathID(p.PostType, p.Slug)) = [post |-> p, err |-> NoErr]
                /\ SqlGet(sqlRows', PostPathID(t, s)).err # NoErr
      ]_vars


-----------------------------------------------------------------------------
(* MemoryCacheStore.Search: filter, count, sort, split the pinned posts, paginate *)

PostTypeKeyAny == "any"
FilterTypeAny  == "any"

\* the zero time.Time
ZeroTime == 0

\* a post as Search reads it; Published is a date of the form "2006-01-02", counted in
\* days, and 0 when the post has none (Published.Valid is false); publishedTime is the
\* unexported field that caches the parsed date
SearchPost(postType, slug, status, visibility, pinned, published) ==
    [PostType |-> postType, Slug |-> slug, Status |-> status,
     Visibility |-> visibility, Pinned |-> pinned, Published |-> published,
     publishedTime |-> ZeroTime]

\* time.Parse of a date without a time of day: the layout "2006-01-02" takes it, the
\* layout "2006-01-02 15:04:05" does not, and a failed Parse returns the zero time
ParseDate(published) == [time |-> published, err |-> FALSE]

ParseDateTime(published) == [time |-> ZeroTime, err |-> TRUE]

\* Post.HasPublished: a date that parses is parsed again with the next layout, and the
\* result of the last Parse is stored in publishedTime whatever its error
HasPublished(post) ==
    IF post.Published = 0
    THEN [has |-> FALSE, publishedTime |-> post.publishedTime, written |-> FALSE]
    ELSE LET first  == ParseDate(post.Published)
             second == IF ~first.err THEN ParseDateTime(post.Published) ELSE first
         IN  \* the third Parse (RFC3339) runs only when the second succeeded
             [has |-> second.time # ZeroTime, publishedTime |-> second.time,
              written |-> TRUE]

PublishedTime(post) ==
    LET has == HasPublished(post) IN
    IF has.has THEN has.publishedTime ELSE ZeroTime

\* FilterAuthor, FilterSearch, FilterProperties and FilterTaxonomies are left unset
FilterOptions(pageNum, pageSize, sortBy, postType, status, visibility, splitPinned) ==
    [PageNum |-> pageNum, PageSize |-> pageSize, SortBy |-> sortBy,
     FilterPostType |-> postType, FilterStatus |-> status,
     FilterVisibility |-> visibility, SplitPinned |-> splitPinned]

postMatchesFilters(post, options) ==
    /\ ~(options.FilterPostType # PostTypeKeyAny /\ options.FilterPostType # post.PostType)
    /\ ~(options.FilterStatus # "" /\ options.FilterStatus # post.Status)
    /\ ~(options.FilterVisibility # "" /\ options.FilterVisibility # post.Visibility)

compareBool(a, b) == IF a = b THEN 0 ELSE IF a THEN 1 ELSE -1

compareTime(a, b) == IF a < b THEN -1 ELSE IF a > b THEN 1 ELSE 0

stringsCompare(a, b) == IF a = b THEN 0 ELSE IF KeyLess(a, b) THEN -1 ELSE 1

\* the less function sortPosts hands to sort.Slice
RECURSIVE less(_, _, _)
less(sortBy, pi, pj) ==
    IF sortBy = <<>> THEN FALSE
    ELSE LET descending == HasPrefix(Head(sortBy), "-")
             field      == TrimPrefix(Head(sortBy), "-")
             comparison ==
               CASE field = "pinned"    -> compareBool(pi.Pinned, pj.Pinned)
                 [] field = "published" -> compareTime(PublishedTime(pi), PublishedTime(pj))
                 [] field = "name"      -> stringsCompare(pi.Slug, pj.Slug)
                 [] OTHER               -> 0
         IN  IF comparison # 0
             THEN IF descending THEN comparison > 0 ELSE comparison < 0
             ELSE less(Tail(sortBy), pi, pj)

\* the posts that pass the filter; their order is the order of the range over the map
Filtered(ps, options) ==
    {post \in {ps[key] : key \in DOMAIN ps} : postMatchesFilters(post, options)}

\* the orders sort.Slice can leave the filtered posts in: the range over a map has no
\* fixed order and sort.Slice is not stable, so posts that less does not separate come
\* out in any order
RECURSIVE sortPosts(_, _)
sortPosts(filtered, sortBy) ==
    IF filtered = {} THEN {<<>>}
    ELSE UNION { { <<first>> \o rest : rest \in sortPosts(filtered \ {first}, sortBy) } :
                 first \in {p \in filtered : \A q \in filtered : ~less(sortBy, q, p)} }

\* less reads PublishedTime of the two posts: the key "published" is reached before an
\* earlier key told them apart
RECURSIVE ConsultsPublished(_, _, _)
ConsultsPublished(sortBy, pi, pj) ==
    IF sortBy = <<>> THEN FALSE
    ELSE LET field == TrimPrefix(Head(sortBy), "-") IN
         \/ field = "published"
         \/ /\ field = "pinned" => pi.Pinned = pj.Pinned
            /\ field = "name" => pi.Slug = pj.Slug
            /\ ConsultsPublished(Tail(sortBy), pi, pj)

\* the posts whose publishedTime the sort assigned: sort.Slice compares the posts that
\* end next to each other, and PublishedTime calls HasPublished on both
Written(sorted, sortBy) ==
    {sorted[i] : i \in {k \in 1..Len(sorted) :
        /\ HasPublished(sorted[k]).written
        /\ \E j \in {k - 1, k + 1} \cap 1..Len(sorted) :
              ConsultsPublished(sortBy, sorted[k], sorted[j])}}

\* no post is taken for pinned
splitPinnedNothing(sorted) == [pinned |-> <<>>, nonPinned |-> sorted]

splitPinned(sorted) ==
    [pinned    |-> SelectSeq(sorted, LAMBDA post : post.Pinned),
     nonPinned |-> SelectSeq(sorted, LAMBDA post : ~post.Pinned)]

getPaginationBounds(pageNum, pageSize, totalItems) ==
    LET start == (pageNum - 1) * pageSize
        end   == start + pageSize
    IN  [start |-> start, end |-> IF end > totalItems THEN totalItems ELSE end]

DefaultPageSize == 10

PageNumOf(options) == IF options.PageNum <= 0 THEN 1 ELSE options.PageNum

PageSizeOf(options) == IF options.PageSize <= 0 THEN DefaultPageSize ELSE options.PageSize

\* the posts left to paginate after the pinned ones are taken out
Paginated(options, sorted) ==
    IF options.SplitPinned THEN splitPinned(sorted).nonPinned ELSE sorted

PinnedOf(options, sorted) ==
    IF options.SplitPinned THEN splitPinned(sorted).pinned ELSE <<>>

\* the slice expression filtered[start:end] panics when start > end
Panicked == [posts |-> <<>>, total |-> 0, err |-> NoErr, panic |-> TRUE]

\* the count taken from the returned page instead of the filtered set
MemSearchCountsPage(options, sorted) ==
    LET filtered == Paginated(options, sorted)
        b == getPaginationBounds(PageNumOf(options), PageSizeOf(options), Len(filtered))
        paginatedResults == PinnedOf(options, sorted) \o SubSeq(filtered, b.start + 1, b.end)
    IN  IF b.start > b.end THEN Panicked
        ELSE [posts |-> paginatedResults, total |-> Len(paginatedResults),
              err |-> NoErr, panic |-> FALSE]

\* Search once the filtered posts are sorted
MemSearch(options, sorted) ==
    LET totalCount == Len(sorted)
        filtered == Paginated(options, sorted)
        b == getPaginationBounds(PageNumOf(options), PageSizeOf(options), Len(filtered))
    IN  IF b.start > b.end THEN Panicked
        ELSE [posts |-> PinnedOf(options, sorted) \o SubSeq(filtered, b.start + 1, b.end),
              total |-> totalCount, err |-> NoErr, panic |-> FALSE]

StoreSearch(options) ==
    \E sorted \in sortPosts(Filtered(posts, options), options.SortBy) :
      LET r == MemSearch(options, sorted)
          written == IF "published" \in {TrimPrefix(options.SortBy[i], "-") :
                                           i \in 1..Len(options.SortBy)}
                     THEN Written(sorted, options.SortBy) ELSE {} IN
      /\ posts' = IF written = {} THEN posts
                  ELSE [key \in DOMAIN posts |->
                          IF posts[key] \in written
                          THEN [posts[key] EXCEPT
                                  !.publishedTime = HasPublished(posts[key]).publishedTime]
                          ELSE posts[key]]
      /\ ret' = [op |-> "Search", options |-> options, posts |-> r.posts,
                 total |-> r.total, err |-> r.err, panic |-> r.panic,
                 written |-> {makeKey(post.PostType, post.Slug) : post \in written}]

\* a Search that returned
Returned == ret.op = "Search" /\ ~ret.panic


-----------------------------------------------------------------------------
(* Search on the in-memory store *)

MaxPage == 3
MaxSize == 2

\* the posts searched: a draft, a private and a pinned post among them; two slugs
\* under two post types, two publication dates
SearchPosts ==
    { SearchPost("articles", "a", "published", "public",  FALSE, 2),
      SearchPost("articles", "b", "draft",     "public",  FALSE, 1),
      SearchPost("pages",    "a", "published", "public",  TRUE,  1),
      SearchPost("pages",    "b", "published", "private", FALSE, 2) }

DefaultSort == <<"-pinned", "-published", "name">>

SortKeys == { <<>>, DefaultSort, <<"-updated", "name">> }

\* requests that vary the filters, all results on one page
FilterRequests ==
    { FilterOptions(1, 0, <<>>, t, st, v, FALSE) :
        t \in {"", PostTypeKeyAny, "articles"},
        st \in {"", FilterTypeAny, "published", "draft"},
        v \in {"", FilterTypeAny, "public"} }

\* requests that vary page, size, sort keys and the pinned split
PageRequests ==
    { FilterOptions(n, z, sortBy, PostTypeKeyAny, st, "", split) :
        n \in 0..MaxPage, z \in 0..MaxSize, sortBy \in SortKeys,
        st \in {"", "published"}, split \in BOOLEAN }

NextSearch ==
    /\ \/ \E p \in SearchPosts : StoreCreate(p)
       \/ \E p \in SearchPosts : StoreDelete(p.PostType, p.Slug)
       \/ \E options \in FilterRequests \cup PageRequests : StoreSearch(options)
    /\ UNCHANGED <<coordVars, boltVars, threeVars>>

SpecSearch == Init /\ [][NextSearch]_vars

StoredPosts == {posts[key] : key \in DOMAIN posts}

Range(seq) == {seq[i] : i \in 1..Len(seq)}

\* a Search that returned all matching posts on its one page
OnOnePage == Returned /\ ~ret.options.SplitPinned /\ Len(ret.posts) = ret.total

\* the status and the visibility filter as specified: a default when unset, no
\* filter for the "any" sentinel, an exact match otherwise
PassesWithDefault(filter, value, default) ==
    IF filter = "" THEN value = default
    ELSE filter = FilterTypeAny \/ value = filter

\* C14: a Search with the status filter unset returns the posts with status
\* "published" only, with the "any" sentinel it returns posts of every status, with any
\* other value the posts of exactly that status; the visibility filter does the same
\* with the default "public".
C14_StatusVisibilityDefaults ==
    (OnOnePage /\ ret.options.FilterPostType = PostTypeKeyAny) =>
       /\ Range(ret.posts) =
            {p \in StoredPosts :
               /\ PassesWithDefault(ret.options.FilterStatus, p.Status, "published")
               /\ PassesWithDefault(ret.options.FilterVisibility, p.Visibility, "public")}
       /\ ret.total = Cardinality(Range(ret.posts))

\* C15: a Search whose FilterPostType is empty or "any" returns the matching posts of
\* every post type; any other value returns the matching posts of exactly that type.
\* (Stated for an explicit status and visibility, which are exact matches.)
C15_PostTypeFilter ==
    (OnOnePage /\ ret.options.FilterStatus = "published"
               /\ ret.options.FilterVisibility = "public") =>
       Range(ret.posts) =
         {p \in StoredPosts :
            /\ p.Status = "published" /\ p.Visibility = "public"
            /\ \/ ret.options.FilterPostType \in {"", PostTypeKeyAny}
               \/ p.PostType = ret.options.FilterPostType}

\* p comes before q in the default order: pinned first, then the later publication
\* date, then the smaller identity ("articles/..." before "pages/...", then the slug)
DefaultBefore(p, q) ==
    \/ p.Pinned /\ ~q.Pinned
    \/ p.Pinned = q.Pinned /\ p.Published > q.Published
    \/ /\ p.Pinned = q.Pinned /\ p.Published = q.Published
       /\ \/ p.PostType = "articles" /\ q.PostType = "pages"
          \/ p.PostType = q.PostType /\ KeyLess(p.Slug, q.Slug)

\* C16: a Search without sort keys returns the matching posts ordered by pinned
\* descending, then publication date descending, then identity ascending.
C16_DefaultSortOrder ==
    (Returned /\ ret.options.SortBy = <<>> /\ ~ret.options.SplitPinned) =>
       \A i, j \in 1..Len(ret.posts) : i < j => ~DefaultBefore(ret.posts[j], ret.posts[i])

\* C17: two Searches in a row with the same options, no write between them, return the
\* same posts in the same order.
C17_PaginationIdempotence ==
    [][ (ret.op = "Search" /\ ret'.op = "Search" /\ ret'.options = ret.options) =>
          ret'.posts = ret.posts ]_vars

\* the posts Search paginates: the matching posts, without the pinned ones when the
\* pinned split is asked for
PaginatedPosts(options) ==
    {p \in Filtered(posts, options) : ~(options.SplitPinned /\ p.Pinned)}

\* C18: a Search for a page past the last page does not panic and returns no error and
\* an empty page (with the pinned split: the pinned posts and nothing else), whatever
\* the page size and the number of matching posts.
C18_PageBeyondLast ==
    (/\ ret.op = "Search"
     /\ (PageNumOf(ret.options) - 1) * PageSizeOf(ret.options)
          >= Cardinality(PaginatedPosts(ret.options))) =>
       /\ ~ret.panic
       /\ ret.err = NoErr
       /\ Range(ret.posts) = Filtered(posts, ret.options) \ PaginatedPosts(ret.options)

\* C20: the total a Search returns is the number of stored posts that pass the filter,
\* whatever the page number, the page size and the pinned split.
C20_TotalOverFilteredSet ==
    Returned => ret.total = Cardinality(Filtered(posts, ret.options))

\* a Search that filtered posts out and returned a page shorter than its total
C20_Witness ==
    /\ Returned
    /\ ret.options.FilterStatus = "published"
    /\ ret.options.PageNum = 2
    /\ Cardinality(StoredPosts) = 4
    /\ ret.total = 3
    /\ Len(ret.posts) = 1


-----------------------------------------------------------------------------
(* The pinned split: two pinned and five other posts *)

\* seven published, public posts with seven publication dates, two of them pinned
PinnedScenario ==
    { SearchPost("articles", "a", "published", "public", TRUE,  2),
      SearchPost("pages",    "a", "published", "public", TRUE,  5),
      SearchPost("articles", "b", "published", "public", FALSE, 1),
      SearchPost("articles", "c", "published", "public", FALSE, 3),
      SearchPost("pages",    "b", "published", "public", FALSE, 4),
      SearchPost("pages",    "c", "published", "public", FALSE, 6),
      SearchPost("notes",    "a", "published", "public", FALSE, 7) }

PinnedRequests ==
    { FilterOptions(n, z, DefaultSort, PostTypeKeyAny, "", "", split) :
        n \in 1..MaxPage, z \in 1..MaxSize, split \in BOOLEAN }

NextPinned ==
    /\ \/ \E p \in PinnedScenario : StoreCreate(p)
       \/ \E options \in PinnedRequests : StoreSearch(options)
    /\ UNCHANGED <<coordVars, boltVars, threeVars>>

SpecPinned == Init /\ [][NextPinned]_vars

\* seq is in the order of the sort keys
InOrder(seq, sortBy) ==
    \A i, j \in 1..Len(seq) : i < j => ~less(sortBy, seq[j], seq[i])

Min(a, b) == IF a < b THEN a ELSE b

\* C19: a Search with the pinned split that returns holds all pinned matching posts, in
\* sort order, followed by the page's slice of the other matching posts in sort order;
\* the total counts pinned and other posts alike.
C19_PinnedSplit ==
    (Returned /\ ret.options.SplitPinned) =>
       LET matching  == Filtered(posts, ret.options)
           pinned    == {p \in matching : p.Pinned}
           others    == matching \ pinned
           k         == Cardinality(pinned)
           start     == (PageNumOf(ret.options) - 1) * PageSizeOf(ret.options)
           head      == SubSeq(ret.posts, 1, k)
           rest      == SubSeq(ret.posts, k + 1, Len(ret.posts))
       IN  /\ Len(ret.posts) >= k
           /\ Range(head) = pinned
           /\ InOrder(head, ret.options.SortBy)
           /\ Range(rest) \subseteq others
           /\ Len(rest) = Cardinality(Range(rest))
           /\ Len(rest) = Min(PageSizeOf(ret.options), Cardinality(others) - start)
           /\ InOrder(rest, ret.options.SortBy)
           \* the i-th post of the slice stands at place start + i among the other posts
           /\ \A i \in 1..Len(rest) :
                /\ Cardinality({q \in others : less(ret.options.SortBy, q, rest[i])})
                     <= start + i - 1
                /\ Cardinality({q \in others : ~less(ret.options.SortBy, rest[i], q)})
                     >= start + i
           /\ ret.total = Cardinality(matching)

\* page 2 of size 2 over two pinned and five other posts: the two pinned posts and two
\* others, total 7
C19_Witness ==
    /\ Returned
    /\ ret.options.SplitPinned
    /\ ret.options.PageNum = 2
    /\ ret.options.PageSize = 2
    /\ StoredPosts = PinnedScenario
    /\ Len(ret.posts) = 4
    /\ ret.posts[1].Pinned /\ ret.posts[2].Pinned
    /\ ~ret.posts[3].Pinned /\ ~ret.posts[4].Pinned
    /\ ret.total = 7


-----------------------------------------------------------------------------
(* NewPaginator, and BBoltStore.Search which returns its result *)

\* Go's integer division for a dividend that is not negative
NewPaginator(docs, total, currentPage, pageSize, includeFeatured) ==
    LET totalPages == (total + pageSize - 1) \div pageSize
        nextPage   == currentPage + 1
        prevPage   == currentPage - 1
        lenDocs    == Len(docs)
    IN  [TotalPages       |-> totalPages,
         CurrentPage      |-> currentPage,
         NextPage         |-> IF nextPage > totalPages THEN totalPages ELSE nextPage,
         PrevPage         |-> IF prevPage < 1 THEN 1 ELSE prevPage,
         PageSize         |-> pageSize,
         HasNext          |-> currentPage < totalPages,
         HasPrev          |-> currentPage > 1,
         HasPosts         |-> lenDocs > 0,
         TotalPosts       |-> lenDocs,
         AllPosts         |-> docs,
         FeaturedPosts    |-> IF includeFeatured
                              THEN SelectSeq(docs, LAMBDA doc : doc.Pinned) ELSE <<>>,
         NonFeaturedPosts |-> IF includeFeatured
                              THEN SelectSeq(docs, LAMBDA doc : ~doc.Pinned) ELSE docs,
         Visible          |-> TRUE]

\* the conjunction query of BBoltStore.Search: the post type unless empty or "any",
\* status and visibility with their defaults unless "any"
bbsQueryMatches(post, filter) ==
    /\ (filter.FilterPostType # PostTypeKeyAny /\ filter.FilterPostType # "")
          => post.PostType = filter.FilterPostType
    /\ PassesWithDefault(filter.FilterStatus, post.Status, "published")
    /\ PassesWithDefault(filter.FilterVisibility, post.Visibility, "public")

\* the bleve search result: Total counts every matching document, Hits are the size
\* documents from offset on, in the order bleve sorted them (sorted)
BleveSearch(sorted, size, offset) ==
    [Total |-> Len(sorted),
     Hits  |-> SubSeq(sorted, offset + 1, Min(offset + size, Len(sorted)))]

BbsSearch(ps, bleve, filter, sorted) ==
    LET pageNum  == IF filter.PageNum < 1 THEN 1 ELSE filter.PageNum
        pageSize == IF filter.PageSize < 1 THEN DefaultPageSize ELSE filter.PageSize
        result   == BleveSearch(sorted, pageSize, (pageNum - 1) * pageSize)
    IN  NewPaginator(result.Hits, result.Total, pageNum, pageSize, filter.SplitPinned)

\* the documents of the bleve index that match, each read back from the bolt bucket
BbsMatching(ps, bleve, filter) ==
    {ps[id] : id \in {i \in bleve \cap DOMAIN ps : bbsQueryMatches(ps[i], filter)}}

PagCreate(p) ==
    LET b == BbsCreate(bbsPosts, bbsBleve, p) IN
    /\ bbsPosts' = b.posts
    /\ bbsBleve' = b.bleve
    /\ three' = [op |-> "Create", arg |-> p]
    /\ UNCHANGED <<sqlRows, sqlNextId>>

PagSearch(filter) ==
    \E sorted \in sortPosts(BbsMatching(bbsPosts, bbsBleve, filter), <<>>) :
      /\ three' = [op |-> "Search", filter |-> filter, total |-> Len(sorted),
                   pageSize |-> IF filter.PageSize < 1 THEN DefaultPageSize
                                ELSE filter.PageSize,
                   paginator |-> BbsSearch(bbsPosts, bbsBleve, filter, sorted)]
      /\ UNCHANGED <<sqlRows, sqlNextId, bbsPosts, bbsBleve>>

\* NewPaginator called by a client with values of its own
PagNew(docs, total, currentPage, pageSize, includeFeatured) ==
    /\ three' = [op |-> "NewPaginator", total |-> total, pageSize |-> pageSize,
                 paginator |-> NewPaginator(docs, total, currentPage, pageSize,
                                            includeFeatured)]
    /\ UNCHANGED <<sqlRows, sqlNextId, bbsPosts, bbsBleve>>

MaxTotal == 3

\* the requests made of BBoltStore.Search; status and visibility are never both "any",
\* so the conjunction query has a conjunct
PagRequests ==
    { FilterOptions(n, z, <<>>, PostTypeKeyAny, st, "", split) :
        n \in 0..MaxPage, z \in 0..MaxSize, st \in {"", FilterTypeAny}, split \in BOOLEAN }

NextPaginator ==
    /\ \/ \E p \in SearchPosts : PagCreate(p)
       \/ \E filter \in PagRequests : PagSearch(filter)
       \/ \E docs \in {<<>>} \cup {<<p>> : p \in SearchPosts},
             total \in 0..MaxTotal, currentPage \in -1..(MaxPage + 1),
             pageSize \in 1..MaxSize, includeFeatured \in BOOLEAN :
               Len(docs) <= total /\ PagNew(docs, total, currentPage, pageSize, includeFeatured)
    /\ UNCHANGED <<memVars, coordVars, boltVars>>

SpecPaginator == Init /\ [][NextPaginator]_vars

\* C21: the Paginator's TotalPosts is the number of posts matching the filter, not the
\* number of posts on the returned page.
C21_TotalPostsIsFilteredCount ==
    three.op = "Search" =>
       three.paginator.TotalPosts
         = Cardinality(BbsMatching(bbsPosts, bbsBleve, three.filter))

\* the smallest n with n * pageSize >= total
Ceil(total, pageSize) ==
    CHOOSE n \in 0..total : n * pageSize >= total /\ (n = 0 \/ (n - 1) * pageSize < total)

\* C22: TotalPages is ceil(total / pageSize), and NextPage and PrevPage both lie in
\* 1..TotalPages whatever the current page is (stated where there is a page at all).
C22_PagesClamped ==
    three.op \in {"Search", "NewPaginator"} =>
       /\ three.paginator.TotalPages = Ceil(three.total, three.pageSize)
       /\ three.paginator.TotalPages >= 1 =>
            /\ three.paginator.NextPage \in 1..three.paginator.TotalPages
            /\ three.paginator.PrevPage \in 1..three.paginator.TotalPages


-----------------------------------------------------------------------------
(* Taxonomy and property constraints of Search, in memory and in SQLite *)

KeyValueFilter(key, value) == [Key |-> key, Value |-> value]

\* a post as the constraints read it: Taxonomies maps a taxonomy to its terms (their
\* order plays no part), Properties maps a key to its value
KvPost(postType, slug, taxonomies, properties) ==
    [PostType |-> postType, Slug |-> slug,
     Taxonomies |-> taxonomies, Properties |-> properties]

matchesKeyValueFilter(data, filter) ==
    filter.Key \in DOMAIN data /\ data[filter.Key] = filter.Value

matchesKeyValueFilterSlice(data, filter) ==
    filter.Key \in DOMAIN data /\ filter.Value \in data[filter.Key]

\* the two loops at the end of postMatchesFilters
matchesPairs(post, filterProperties, filterTaxonomies) ==
    /\ \A i \in 1..Len(filterProperties) :
          matchesKeyValueFilter(post.Properties, filterProperties[i])
    /\ \A i \in 1..Len(filterTaxonomies) :
          matchesKeyValueFilterSlice(post.Taxonomies, filterTaxonomies[i])

MemSearchPairs(ps, filterProperties, filterTaxonomies) ==
    {post \in {ps[key] : key \in DOMAIN ps} :
       matchesPairs(post, filterProperties, filterTaxonomies)}

\* the rows insertTaxonomies and insertProperties write for a post
TaxonomyRows(post) ==
    UNION { {[taxonomy |-> t, term |-> term] : term \in post.Taxonomies[t]} :
            t \in DOMAIN post.Taxonomies }

PropertyRows(post) ==
    {[key |-> k, value |-> post.Properties[k]] : k \in DOMAIN post.Properties}

Null == [null |-> TRUE]

\* p LEFT JOIN taxonomies tax LEFT JOIN properties prop: one row for every pair of a
\* taxonomy row and a property row of the post, NULL standing in where it has none
JoinedRows(post) ==
    {<<tax, prop>> :
       tax  \in (IF TaxonomyRows(post) = {} THEN {Null} ELSE TaxonomyRows(post)),
       prop \in (IF PropertyRows(post) = {} THEN {Null} ELSE PropertyRows(post))}

\* the WHERE clause of SQLiteStore.Search: every condition is put on the same joined row
WhereHolds(row, filterProperties, filterTaxonomies) ==
    /\ \A i \in 1..Len(filterTaxonomies) :
          /\ row[1] # Null
          /\ row[1].taxonomy = filterTaxonomies[i].Key
          /\ row[1].term = filterTaxonomies[i].Value
    /\ \A i \in 1..Len(filterProperties) :
          /\ row[2] # Null
          /\ row[2].key = filterProperties[i].Key
          /\ row[2].value = filterProperties[i].Value

\* the posts SQLiteStore.Search selects among the posts created in the store
SqlSearchPairs(ps, filterProperties, filterTaxonomies) ==
    {post \in {ps[key] : key \in DOMAIN ps} :
       \E row \in JoinedRows(post) : WhereHolds(row, filterProperties, filterTaxonomies)}

\* one Search with constraints, put to the in-memory store and to the SQLite store
\* holding the same posts
PairsSearch(filterProperties, filterTaxonomies) ==
    /\ posts' = posts
    /\ ret' = [op |-> "Search", FilterProperties |-> filterProperties,
               FilterTaxonomies |-> filterTaxonomies,
               mem |-> MemSearchPairs(posts, filterProperties, filterTaxonomies),
               sql |-> SqlSearchPairs(posts, filterProperties, filterTaxonomies)]

KvPosts ==
    { KvPost("articles", "a", [tags |-> {"x", "y"}, cat |-> {"n"}],
                              [series |-> "foo", lang |-> "en"]),
      KvPost("articles", "b", [tags |-> {"x"}], [series |-> "foo"]),
      KvPost("pages",    "a", [cat |-> {"n"}],  [series |-> "bar"]),
      KvPost("pages",    "b", EmptyMap, EmptyMap) }

TaxonomyFilters ==
    {KeyValueFilter("tags", "x"), KeyValueFilter("tags", "y"), KeyValueFilter("cat", "n")}

PropertyFilters ==
    {KeyValueFilter("series", "foo"), KeyValueFilter("lang", "en"),
     KeyValueFilter("series", "bar")}

MaxPairs == 2

\* the lists of at most MaxPairs constraints
Lists(S) == UNION {[1..n -> S] : n \in 0..MaxPairs}

NextPairs ==
    /\ \/ \E p \in KvPosts : StoreCreate(p)
       \/ \E p \in KvPosts : StoreDelete(p.PostType, p.Slug)
       \/ \E fp \in Lists(PropertyFilters), ft \in Lists(TaxonomyFilters) : PairsSearch(fp, ft)
    /\ UNCHANGED <<coordVars, boltVars, threeVars>>

SpecPairs == Init /\ [][NextPairs]_vars

\* the posts that satisfy every pair
SatisfyAll(ps, filterProperties, filterTaxonomies) ==
    {post \in {ps[key] : key \in DOMAIN ps} :
       /\ \A i \in 1..Len(filterTaxonomies) :
             /\ filterTaxonomies[i].Key \in DOMAIN post.Taxonomies
             /\ filterTaxonomies[i].Value \in post.Taxonomies[filterTaxonomies[i].Key]
       /\ \A i \in 1..Len(filterProperties) :
             /\ filterProperties[i].Key \in DOMAIN post.Properties
             /\ post.Properties[filterProperties[i].Key] = filterProperties[i].Value}

\* C23: a Search with several taxonomy pairs and several property pairs returns exactly
\* the posts that satisfy every pair, in the in-memory store and in the SQLite store.
C23_PairsAreAnded ==
    ret.op = "Search" =>
       /\ ret.mem = SatisfyAll(posts, ret.FilterProperties, ret.FilterTaxonomies)
       /\ ret.sql = SatisfyAll(posts, ret.FilterProperties, ret.FilterTaxonomies)


-----------------------------------------------------------------------------
(* The free-text constraint of the in-memory Search *)

\* a post as the free-text constraint reads it
TextPost(postType, slug, name, subtitle, summary, content) ==
    [PostType |-> postType, Slug |-> slug, Name |-> name,
     Subtitle |-> subtitle, Summary |-> summary, Content |-> content]

ToLowerChar(ch) ==
    CASE ch = "A" -> "a" [] ch = "B" -> "b" [] ch = "C" -> "c" [] OTHER -> ch

\* strings.ToLower
RECURSIVE ToLower(_)
ToLower(s) ==
    IF s = "" THEN ""
    ELSE ToLowerChar(SubSeq(s, 1, 1)) \o ToLower(SubSeq(s, 2, Len(s)))

\* strings.Contains
Contains(s, substr) ==
    \E i \in 1..(Len(s) + 1) :
      i + Len(substr) - 1 <= Len(s) /\ SubSeq(s, i, i + Len(substr) - 1) = substr

\* the FilterSearch test of postMatchesFilters
matchesSearch(post, filterSearch) ==
    ~(filterSearch # "" /\ ~Contains(ToLower(post.Content), ToLower(filterSearch)))

TextSearch(filterSearch) ==
    /\ posts' = posts
    /\ ret' = [op |-> "Search", FilterSearch |-> filterSearch,
               posts |-> {post \in {posts[key] : key \in DOMAIN posts} :
                            matchesSearch(post, filterSearch)}]

\* the search string in the title, the subtitle, the summary, the body, or nowhere
TextPosts ==
    { TextPost("articles", "a", "ab", "", "", "c"),
      TextPost("articles", "b", "c", "ab", "", ""),
      TextPost("pages",    "a", "c", "", "Ab", "b"),
      TextPost("pages",    "b", "c", "", "", "cAB"),
      TextPost("notes",    "a", "c", "", "", "ba") }

SearchStrings == {"", "ab", "AB", "b", "cc"}

NextText ==
    /\ \/ \E p \in TextPosts : StoreCreate(p)
       \/ \E p \in TextPosts : StoreDelete(p.PostType, p.Slug)
       \/ \E s \in SearchStrings : TextSearch(s)
    /\ UNCHANGED <<coordVars, boltVars, threeVars>>

SpecText == Init /\ [][NextText]_vars

\* the string occurs in the title, the subtitle, the summary or the body
OccursIn(post, s) ==
    \/ Contains(post.Name, s) \/ Contains(post.Subtitle, s)
    \/ Contains(post.Summary, s) \/ Contains(post.Content, s)

\* C24: an empty search string excludes no post; a non-empty one matches the posts in
\* whose title, subtitle, summary or body it occurs (the case of letters set aside for
\* the posts returned).
C24_FreeTextSearch ==
    ret.op = "Search" =>
       /\ ret.FilterSearch = "" => ret.posts = StoredPosts
       /\ ret.FilterSearch # "" =>
            /\ \A p \in StoredPosts : OccursIn(p, ret.FilterSearch) => p \in ret.posts
            /\ \A p \in ret.posts :
                 OccursIn(TextPost(p.PostType, p.Slug, ToLower(p.Name), ToLower(p.Subtitle),
                                   ToLower(p.Summary), ToLower(p.Content)),
                          ToLower(ret.FilterSearch))


\* C25: a Search leaves the map and every field of every stored post as they were, and
\* assigns to no field of a stored post, whatever the filter, the sort keys, the page
\* and the pinned split.
C25_SearchWritesNothing ==
    [][ ret'.op = "Search" => (posts' = posts /\ ret'.written = {}) ]_vars


-----------------------------------------------------------------------------
(* Walk under a context that is cancelled while SyncAll consumes it *)

ErrCanceled == "context canceled"

\* the select of the walker with no case for ctx.Done(): the send is all there is
WalkSendOnly(c) ==
    /\ FALSE
    /\ UNCHANGED vars

\* the caller's context is cancelled while the walk is in progress
Cancel(c) ==
    /\ walk[c].state \in {"running", "sending"}
    /\ ~walk[c].cancelled
    /\ walk' = [walk EXCEPT ![c] = [@ EXCEPT !.cancelled = TRUE]]
    /\ UNCHANGED <<files, posts, call>>

\* select { case posts <- post: case <-ctx.Done(): return ctx.Err() }: with the context
\* done the callback may return its error, which ends filepath.Walk; the error goes to
\* the buffered errs and both channels are closed.  SyncRecv is the other case.
WalkCancelled(c) ==
    /\ walk[c].state = "sending"
    /\ walk[c].cancelled
    /\ walk' = [walk EXCEPT ![c] =
           [@ EXCEPT !.state = "closed", !.post = NoPost, !.err = OsErr(ErrCanceled)]]
    /\ UNCHANGED <<files, posts, call>>

\* a SyncAll of a caller whose earlier walker, if any, has ended
BeginSyncAllAgain(c) ==
    /\ walk[c].state \in {"off", "closed"}
    /\ BeginSyncAll(c)

WalkerStep(c) == WalkStep(c) \/ WalkCancelled(c)

SyncAllStep(c) ==
    \/ SyncRecv(c) \/ SyncPostsClosed(c)
    \/ SyncCreate(c) \/ SyncUpdate(c) \/ SyncErrs(c)

\* c1 runs SyncAll under a context that may be cancelled; c2 deletes posts meanwhile;
\* files are put under rootDir between calls
NextWalk ==
    /\ \/ BeginSyncAllAgain("c1") \/ Cancel("c1")
       \/ WalkerStep("c1") \/ SyncAllStep("c1") \/ Return("c1")
       \/ \E t \in PostTypes, s \in CoordSlugs : BeginDelete("c2", t, s)
       \/ DeleteFs("c2") \/ DeleteStore("c2") \/ Return("c2")
       \/ \E p \in CoordPosts : ExternalWrite(p)
    /\ UNCHANGED <<ret, boltVars, threeVars>>

\* the goroutine of the walker, and the one that runs SyncAll, of caller c1
WalkerRuns  == WalkerStep("c1") /\ UNCHANGED <<ret, boltVars, threeVars>>
SyncAllRuns == SyncAllStep("c1") /\ UNCHANGED <<ret, boltVars, threeVars>>

\* the Go scheduler runs a goroutine that can take a step: the walker and SyncAll each
\* go on while they are not blocked on the channel
SpecWalk ==
    /\ Init /\ [][NextWalk]_vars
    /\ WF_vars(WalkerRuns) /\ WF_vars(SyncAllRuns)

WalkInProgress(c) == walk[c].state \in {"running", "sending"}

SyncAllReturned(c) == call[c].pc \in {"done", "idle"}

\* C26: once the context is cancelled while the walk is in progress, the walker comes to
\* stop emitting and closes the posts and the errs channel, and the SyncAll that
\* consumes the walk returns.
C26_CancelledWalkEnds ==
    (walk["c1"].cancelled /\ WalkInProgress("c1"))
        ~> (walk["c1"].state = "closed" /\ SyncAllReturned("c1"))

\* the walk was cut short by the cancellation and SyncAll returned its error
C26_Witness ==
    /\ walk["c1"].cancelled
    /\ walk["c1"].state = "closed"
    /\ walk["c1"].err = OsErr(ErrCanceled)
    /\ call["c1"].op = "SyncAll"
    /\ call["c1"].pc = "done"
    /\ call["c1"].err = Wrap("error walking filesystem", OsErr(ErrCanceled))


-----------------------------------------------------------------------------
(* GetTaxonomies of the three backends *)

\* MemoryCacheStore.GetTaxonomies: the keys of Taxonomies of every post of the map,
\* each once
MemGetTaxonomies(ps) ==
    UNION {DOMAIN ps[key].Taxonomies : key \in DOMAIN ps}

\* SQLiteStore.Create with taxonomies: the row of posts is replaced under a fresh id and
\* insertTaxonomies adds one row of posts_taxonomies per term under that id.  The rows
\* of posts_taxonomies are kept with the row of posts they reference: they go with it
\* (ON DELETE CASCADE, foreign keys enforced as the store's test database sets them).
SqlCreateTax(rows, nextId, post) ==
    LET postID == PostPathID(post.PostType, post.Slug)
        kept   == {r \in rows : /\ r.post_id # postID
                                /\ <<r.post_type, r.slug>> # <<post.PostType, post.Slug>>} IN
    [rows   |-> kept \cup {[id |-> nextId, post_id |-> postID,
                            post_type |-> post.PostType, slug |-> post.Slug,
                            taxonomies |-> TaxonomyRows(post)]},
     nextId |-> nextId + 1,
     err    |-> NoErr]

\* SQLiteStore.GetTaxonomies: SELECT DISTINCT taxonomy FROM posts_taxonomies
SqlGetTaxonomies(rows) ==
    {tax.taxonomy : tax \in UNION {r.taxonomies : r \in rows}}

\* BBoltStore.taxonomies as New leaves it; Create, Delete and the other methods of the
\* store never assign it
NewBbsTaxonomies == {}

\* BBoltStore.GetTaxonomies
BbsGetTaxonomies(taxonomies) == taxonomies

TaxCreate(p) ==
    LET m == MemCreate(posts, p)
        q == SqlCreateTax(sqlRows, sqlNextId, p)
        b == BbsCreate(bbsPosts, bbsBleve, p) IN
    /\ sqlNextId <= MaxRows
    /\ posts' = m.posts
    /\ sqlRows' = q.rows
    /\ sqlNextId' = q.nextId
    /\ bbsPosts' = b.posts
    /\ bbsBleve' = b.bleve
    /\ three' = [op |-> "Create", arg |-> makeKey(p.PostType, p.Slug),
                 mem |-> m.err, sql |-> q.err, bbs |-> b.err]

TaxDelete(postType, slug) ==
    LET m == MemDelete(posts, postType, slug)
        q == SqlDelete(sqlRows, PostPathID(postType, slug))
        b == BbsDelete(bbsPosts, bbsBleve, PostPathID(postType, slug)) IN
    /\ posts' = m.posts
    /\ sqlRows' = q.rows
    /\ bbsPosts' = b.posts
    /\ bbsBleve' = b.bleve
    /\ three' = [op |-> "Delete", arg |-> makeKey(postType, slug),
                 mem |-> m.err, sql |-> q.err, bbs |-> b.err]
    /\ UNCHANGED sqlNextId

TaxGetTaxonomies ==
    /\ three' = [op |-> "GetTaxonomies", arg |-> "",
                 mem |-> MemGetTaxonomies(posts),
                 sql |-> SqlGetTaxonomies(sqlRows),
                 bbs |-> BbsGetTaxonomies(NewBbsTaxonomies)]
    /\ UNCHANGED <<posts, sqlRows, sqlNextId, bbsPosts, bbsBleve>>

NextTax ==
    /\ \/ \E p \in KvPosts : TaxCreate(p)
       \/ \E p \in KvPosts : TaxDelete(p.PostType, p.Slug)
       \/ TaxGetTaxonomies
    /\ UNCHANGED <<ret, coordVars, boltVars>>

SpecTax == Init /\ [][NextTax]_vars

\* the taxonomies that at least one of the posts carries
CarriedBy(ps) ==
    UNION {{t \in DOMAIN post.Taxonomies : post.Taxonomies[t] # {}} : post \in ps}

\* the posts a backend holds
MemHolds == {posts[key] : key \in DOMAIN posts}
BbsHolds == {bbsPosts[id] : id \in DOMAIN bbsPosts}
SqlHolds == {post \in KvPosts :
                \E r \in sqlRows : r.post_id = PostPathID(post.PostType, post.Slug)}

\* C27: in each backend GetTaxonomies returns exactly the taxonomies carried by at least
\* one post the backend holds: non-empty once a post with a taxonomy is created, and
\* without a taxonomy whose last carrier was deleted.
C27_TaxonomiesAreLive ==
    three.op = "GetTaxonomies" =>
        /\ three.mem = CarriedBy(MemHolds)
        /\ three.sql = CarriedBy(SqlHolds)
        /\ three.bbs = CarriedBy(BbsHolds)

\* the in-memory and the SQLite backend do return the carried taxonomies
C27_MemAndSqlAreLive ==
    three.op = "GetTaxonomies" =>
        /\ three.mem = CarriedBy(MemHolds)
        /\ three.sql = CarriedBy(SqlHolds)


-----------------------------------------------------------------------------
(* Validation of the post given to Create and Update *)

ErrInvalidPostType    == "invalid post type"
ErrInvalidPostSlug    == "invalid post slug"
ErrInvalidPostMeta    == "invalid post metadata"
ErrMissingPostContent == "missing post content"

\* strings.TrimSpace, on strings whose only white space is the blank
RECURSIVE TrimSpace(_)
TrimSpace(s) ==
    IF Len(s) = 0 THEN s
    ELSE IF SubSeq(s, 1, 1) = " " THEN TrimSpace(SubSeq(s, 2, Len(s)))
    ELSE IF SubSeq(s, Len(s), Len(s)) = " " THEN TrimSpace(SubSeq(s, 1, Len(s) - 1))
    ELSE s

IsValidTypeKey(postTypes, key) == key \in postTypes

IsValidPostPath(path) == TrimSpace(path) # ""

PostMeta(status, visibility) == [Status |-> status, Visibility |-> visibility]

NilMeta == [nil |-> TRUE]

\* PostMeta.Validate
Validate(meta) ==
    IF meta.Status \notin {"draft", "published", "archived", ""} THEN ErrInvalidPostMeta
    ELSE IF meta.Visibility \notin {"public", "private", "unlisted", ""}
    THEN ErrInvalidPostMeta
    ELSE NoErr

validatePost(postType, path, content, meta) ==
    IF ~IsValidTypeKey(PostTypes, postType) THEN ErrInvalidPostType
    ELSE IF ~IsValidPostPath(path) THEN ErrInvalidPostSlug
    ELSE IF TrimSpace(content) = "" THEN ErrMissingPostContent
    ELSE IF meta # NilMeta THEN Validate(meta)
    ELSE NoErr

\* savePost: the file is written under the markdown directory, which is the rootDir of
\* the coordinator's filesystem manager, and the post is indexed
savePost(postType, path, content, meta) ==
    /\ files' = MapPut(files, buildPath(postType, path), content)
    /\ IndexPost(Doc(postType, path, [t \in TaxNames |-> {}]))

OpsRet(op, postType, path, content, meta, err) ==
    [op |-> op, postType |-> postType, path |-> path, content |-> content,
     meta |-> meta, err |-> err]

CreatePost(postType, path, content, meta) ==
    LET invalid == validatePost(postType, path, content, meta) IN
    /\ AllIdle
    /\ IF invalid # NoErr
       THEN /\ ret' = OpsRet("CreatePost", postType, path, content, meta, invalid)
            /\ UNCHANGED <<files, boltVars>>
       ELSE IF buildPath(postType, path) \in DOMAIN files
       THEN /\ ret' = OpsRet("CreatePost", postType, path, content, meta, ErrExists)
            /\ UNCHANGED <<files, boltVars>>
       ELSE /\ savePost(postType, path, content, meta)
            /\ ret' = OpsRet("CreatePost", postType, path, content, meta, NoErr)
    /\ UNCHANGED <<posts, call, walk, threeVars>>

UpdatePost(postType, path, content, meta) ==
    LET invalid == validatePost(postType, path, content, meta) IN
    /\ AllIdle
    /\ IF invalid # NoErr
       THEN /\ ret' = OpsRet("UpdatePost", postType, path, content, meta, invalid)
            /\ UNCHANGED <<files, boltVars>>
       ELSE IF buildPath(postType, path) \notin DOMAIN files
       THEN /\ ret' = OpsRet("UpdatePost", postType, path, content, meta, ErrNotFound)
            /\ UNCHANGED <<files, boltVars>>
       ELSE /\ savePost(postType, path, content, meta)
            /\ ret' = OpsRet("UpdatePost", postType, path, content, meta, NoErr)
    /\ UNCHANGED <<posts, call, walk, threeVars>>

\* a Post with the metadata that validation looks at
MetaPost(t, s, n, status, visibility) ==
    [PostType |-> t, Slug |-> s, Name |-> n, Status |-> status, Visibility |-> visibility]

\* the posts the coordinator's Create and Update are given: a valid one, and one for
\* each way of being invalid
GivenPosts ==
    { MetaPost("articles", "a", "x", "published", "public"),
      MetaPost("bogus",    "a", "x", "published", "public"),
      MetaPost("articles", "",  "x", "published", "public"),
      MetaPost("articles", "a", "x", "invalid",   "public"),
      MetaPost("articles", "a", "x", "published", "invalid") }

OpsArgs(postType, path, content, meta) ==
    [postType |-> postType, path |-> path, content |-> content, meta |-> meta]

\* the arguments CreatePost and UpdatePost are given
GivenArgs ==
    { OpsArgs("articles", "a", "x", NilMeta),
      OpsArgs("articles", "a", "x", PostMeta("published", "public")),
      OpsArgs("bogus",    "a", "x", NilMeta),
      OpsArgs("articles", "",  "x", NilMeta),
      OpsArgs("articles", "a", " ", NilMeta),
      OpsArgs("articles", "a", "x", PostMeta("invalid", "public")),
      OpsArgs("articles", "a", "x", PostMeta("published", "invalid")) }

ValidateStep(c) ==
    \/ CreateWrite(c) \/ CreateStore(c) \/ CreateRollback(c)
    \/ UpdateMove(c) \/ UpdateWrite(c) \/ UpdateStore(c) \/ UpdateRollback(c)
    \/ Return(c)

\* one caller of the coordinator's Create and Update, and of CreatePost and UpdatePost
NextValidate ==
    \/ /\ \/ \E p \in GivenPosts : BeginCreate("c1", p)
          \/ \E p \in GivenPosts : BeginUpdate("c1", "articles", "a", p)
          \/ ValidateStep("c1")
       /\ UNCHANGED <<ret, boltVars, threeVars>>
    \/ \E a \in GivenArgs :
          \/ CreatePost(a.postType, a.path, a.content, a.meta)
          \/ UpdatePost(a.postType, a.path, a.content, a.meta)

SpecValidate == Init /\ [][NextValidate]_vars

InvalidIdentity(postType, slug) ==
    postType \notin PostTypes \/ TrimSpace(slug) = ""

InvalidMetadata(status, visibility) ==
    \/ status \notin {"draft", "published", "archived", ""}
    \/ visibility \notin {"public", "private", "unlisted", ""}

\* what CreatePost and UpdatePost owe for their arguments; NoErr when they owe nothing
OwedError(postType, slug, content, meta) ==
    IF InvalidIdentity(postType, slug) THEN {ErrInvalidPostType, ErrInvalidPostSlug}
    ELSE IF TrimSpace(content) # "" /\ meta # NilMeta
            /\ InvalidMetadata(meta.Status, meta.Visibility)
    THEN {ErrInvalidPostMeta}
    ELSE {}

\* CreatePost and UpdatePost reject invalid arguments and write nothing; a step of
\* theirs leaves the calls of the coordinator as they are
OpsReject ==
    ret'.op \in {"CreatePost", "UpdatePost"} /\ call' = call
    /\ OwedError(ret'.postType, ret'.path, ret'.content, ret'.meta) # {}
    => /\ ret'.err \in OwedError(ret'.postType, ret'.path, ret'.content, ret'.meta)
       /\ files' = files /\ boltPosts' = boltPosts /\ bleveDocs' = bleveDocs

\* a coordinator call given an invalid post writes nothing and ends in the error owed
CoordRejects(c) ==
    LET k == call[c] IN
    k.op \in {"Create", "Update"} /\ k.pc # "done"
    /\ (InvalidIdentity(k.post.PostType, k.post.Slug)
        \/ InvalidMetadata(k.post.Status, k.post.Visibility))
    => /\ files' = files /\ posts' = posts
       /\ call'[c].pc = "done"
       /\ call'[c].err =
            IF InvalidIdentity(k.post.PostType, k.post.Slug)
            THEN <<"invalid identity">> ELSE <<"invalid metadata">>

C28_OpsRejectInvalidPosts == [][OpsReject]_vars

\* C28: Create and Update given a post with an empty slug or an unregistered post type
\* end in the invalid-identity error, and given a status or visibility outside the
\* enumeration in the invalid-metadata error, with nothing written to the filesystem,
\* the store or the index; for the coordinator's Create and Update and for CreatePost
\* and UpdatePost alike.
C28_InvalidPostsRejected == [][OpsReject /\ CoordRejects("c1")]_vars


-----------------------------------------------------------------------------
(* Create of a post that is already there *)

\* C29: a coordinator Create of an identity that is in the store and on the filesystem
\* fails and leaves the post as it was: the file is there with its previous content and
\* the store holds the previous record.
C29_CreateExistingLeavesPost ==
    \A c \in Callers :
      LET k == call[c] IN
      (Done(c, "Create") /\ k.agreed /\ InStore(k.post.PostType, k.post.Slug)
          /\ k.err # NilErr)
      => /\ OnDisk(k.post.PostType, k.post.Slug)
         /\ Agree(files, posts, k.post.PostType, k.post.Slug)


-----------------------------------------------------------------------------
(* The coordinator in normal operation *)

Present(t, s) == OnDisk(t, s) /\ InStore(t, s)
Absent(t, s)  == ~OnDisk(t, s) /\ ~InStore(t, s)

\* the calls of normal operation: Create of an identity that is nowhere, Update of one
\* that is in both places to the same or to an absent identity, Delete of one that is
\* in both places
NormalBegin(c) ==
    \/ \E p \in AllPosts : Absent(p.PostType, p.Slug) /\ BeginCreate(c, p)
    \/ \E t \in PostTypes, s \in Slugs, p \in AllPosts :
          /\ Present(t, s)
          /\ Identity(t, s) = Identity(p.PostType, p.Slug) \/ Absent(p.PostType, p.Slug)
          /\ BeginUpdate(c, t, s, p)
    \/ \E t \in PostTypes, s \in Slugs : Present(t, s) /\ BeginDelete(c, t, s)

NormalStep(c) ==
    \/ CreateWrite(c) \/ CreateStore(c)
    \/ UpdateMove(c) \/ UpdateWrite(c) \/ UpdateStore(c)
    \/ DeleteFs(c) \/ DeleteStore(c)
    \/ Return(c)

\* no call on the filesystem manager is refused by the operating system
NoneRefused(k) == \A i \in 1..Len(k.log) : k.log[i].err # EIO

\* one caller, starting from an empty filesystem and an empty store
NextNormal ==
    /\ NormalBegin("c1") \/ NormalStep("c1")
    /\ NoneRefused(call'["c1"])
    /\ UNCHANGED <<ret, boltVars, threeVars>>

SpecNormal == Init /\ [][NextNormal]_vars

\* C30: in normal operation every call succeeds without reaching its compensation, and
\* between calls the identities of the store are those of the filesystem, each stored
\* post being the one last written for its identity: the post of the file, and after a
\* Create or an Update the post the call was given.
C30_CacheConsistency ==
    LET k == call["c1"] IN
    /\ k.pc \notin {"c_rollback", "u_rollback"}
    /\ k.pc \in {"idle", "done"} =>
         \A t \in PostTypes, s \in Slugs : Agree(files, posts, t, s)
    /\ k.pc = "done" =>
         /\ k.err = NilErr
         /\ k.op \in {"Create", "Update"} =>
              /\ InStore(k.post.PostType, k.post.Slug)
              /\ posts[makeKey(k.post.PostType, k.post.Slug)] = k.post
         /\ (k.op = "Update" /\ Moved(k)) => Absent(k.oldType, k.oldSlug)
         /\ k.op = "Delete" => Absent(k.oldType, k.oldSlug)

\* an Update moved a post to another identity while another post is stored
C30_Witness ==
    /\ Done("c1", "Update")
    /\ Moved(call["c1"])
    /\ call["c1"].err = NilErr
    /\ Present(call["c1"].post.PostType, call["c1"].post.Slug)
    /\ Cardinality(DOMAIN posts) = 2


-----------------------------------------------------------------------------
(* Update that fails *)

RollbackFailed(k) ==
    k.err # NilErr /\ Head(k.err) = "failed to update store and rollback failed"

\* C31: a coordinator Update that returns an error other than a failed rollback leaves
\* the filesystem as it was before the call: the post at its old identity with its old
\* content, and nothing added at the new identity.  (The post was stored and on the
\* filesystem when the call began, filesystem and store agreeing on both identities; a
\* failed Update leaves the store as it was, so the filesystem is as before exactly when
\* it still agrees with the store.)
C31_FailedUpdateLeavesFiles ==
    \A c \in Callers :
      LET k == call[c] IN
      (Done(c, "Update") /\ k.agreed /\ InStore(k.oldType, k.oldSlug)
          /\ k.err # NilErr /\ ~RollbackFailed(k))
      => AllAgree(files, posts, k)


-----------------------------------------------------------------------------
(* The walker after SyncAll has returned *)

\* C32: once SyncAll has returned, with nil or with an error, the goroutine of its walk
\* comes to its end and closes its channels, whether or not the context is cancelled.
C32_WalkerEndsAfterSyncAll ==
    Done("c1", "SyncAll") ~> (walk["c1"].state = "closed")


-----------------------------------------------------------------------------
(* IndexPost and DeIndexPost of the bbolt-backed index, step by step: the read of the
   current record, the bolt transaction, the call on bleve *)

ErrBleve == "bleve: index closed"

\* the documents the concurrent callers index: one page, tagged a or b
RaceDocs ==
    {Doc("pages", "a", [t \in TaxNames |-> IF t = "tags" THEN ts ELSE {}]) :
        ts \in {{"a"}, {"b"}}}

Indexing(c) == call[c].op = "IndexPost" /\ call[c].pc \notin {"idle", "done"}

\* ---- DeIndexPost: takes no lock
BeginDeIndexPost(c, pathID) ==
    /\ call[c].pc = "idle"
    /\ call' = [call EXCEPT ![c] =
           [Idle EXCEPT !.op = "DeIndexPost", !.pc = "x_get", !.oldSlug = pathID,
                        !.post = NoDoc, !.got = NoDoc]]
    /\ UNCHANGED <<boltVars>>

\* doc, err := dg.GetPost(pathID), in a read transaction of its own
DeIndexGet(c) ==
    /\ call[c].pc = "x_get"
    /\ LET k == call[c]
           r == GetPost(boltPosts, k.oldSlug) IN
       call' = [call EXCEPT ![c] =
           IF r.err # NoErr
           THEN [k EXCEPT !.pc = "done", !.err = Wrap("failed to get post", OsErr(r.err))]
           ELSE [k EXCEPT !.pc = "x_tx", !.got = r.doc]]
    /\ UNCHANGED <<boltVars>>

\* DeIndexPost whose transaction reads the record it deletes
DeIndexTxReads(c) ==
    /\ call[c].pc = "x_tx"
    /\ LET k  == call[c]
           r  == GetPost(boltPosts, k.oldSlug)
           tx == DeIndexPostTx(boltPosts, boltTax, k.oldSlug, r.doc) IN
       /\ boltPosts' = tx.posts
       /\ boltTax' = tx.tax
       /\ call' = [call EXCEPT ![c] =
              [Logged(k, "bolt.Update", NoErr) EXCEPT !.pc = "x_bleve", !.got = r.doc]]
    /\ UNCHANGED <<bleveDocs, idx>>

\* dg.boltIndex.Update: the key is deleted and the terms of the document read before
\* are decremented
DeIndexTx(c) ==
    /\ call[c].pc = "x_tx"
    /\ LET k  == call[c]
           tx == DeIndexPostTx(boltPosts, boltTax, k.oldSlug, k.got) IN
       /\ boltPosts' = tx.posts
       /\ boltTax' = tx.tax
       /\ call' = [call EXCEPT ![c] = [Logged(k, "bolt.Update", NoErr) EXCEPT !.pc = "x_bleve"]]
    /\ UNCHANGED <<bleveDocs, idx>>

\* dg.bleveIndex.Delete(pathID)
DeIndexBleve(c) ==
    /\ call[c].pc = "x_bleve"
    /\ \E ok \in BOOLEAN :
         LET k == call[c] IN
         IF ok
         THEN /\ bleveDocs' = bleveDocs \ {k.oldSlug}
              /\ call' = [call EXCEPT ![c] =
                     [Logged(k, "bleve.Delete", NoErr) EXCEPT !.pc = "done"]]
         ELSE /\ bleveDocs' = bleveDocs
              /\ call' = [call EXCEPT ![c] =
                     [Logged(k, "bleve.Delete", ErrBleve) EXCEPT !.pc = "done",
                         !.err = Wrap("failed to delete post from bleve", OsErr(ErrBleve))]]
    /\ UNCHANGED <<boltPosts, boltTax, idx>>

\* ---- IndexPost: dg.mu is held from the first to the last step
BeginIndexPost(c, doc) ==
    /\ call[c].pc = "idle"
    /\ \A other \in Callers : ~Indexing(other)
    /\ call' = [call EXCEPT ![c] =
           [Idle EXCEPT !.op = "IndexPost", !.pc = "i_get", !.oldSlug = ID(doc),
                        !.post = doc, !.got = NoDoc]]
    /\ UNCHANGED <<boltVars>>

\* currentPage, _ := dg.GetPost(doc.ID())
IndexGet(c) ==
    /\ call[c].pc = "i_get"
    /\ LET k == call[c] IN
       call' = [call EXCEPT ![c] =
           [k EXCEPT !.pc = "i_tx", !.got = GetPost(boltPosts, k.oldSlug).doc]]
    /\ UNCHANGED <<boltVars>>

\* IndexPost that calls bleve before the bolt transaction
IndexTxAfterBleve(c) ==
    /\ call[c].pc = "i_tx"
    /\ bleveDocs' = bleveDocs \cup {call[c].oldSlug}
    /\ call' = [call EXCEPT ![c] = [Logged(@, "bleve.Index", NoErr) EXCEPT !.pc = "i_bleve"]]
    /\ UNCHANGED <<boltPosts, boltTax, idx>>

\* dg.boltIndex.Update
IndexTx(c) ==
    /\ call[c].pc = "i_tx"
    /\ LET k  == call[c]
           tx == IndexPostTx(boltPosts, boltTax, k.got, k.post) IN
       /\ \A key \in DOMAIN tx.tax : tx.tax[key] <= MaxCount
       /\ boltPosts' = tx.posts
       /\ boltTax' = tx.tax
       /\ call' = [call EXCEPT ![c] = [Logged(k, "bolt.Update", NoErr) EXCEPT !.pc = "i_bleve"]]
    /\ UNCHANGED <<bleveDocs, idx>>

\* dg.bleveIndex.Index(doc.ID(), doc)
IndexBleve(c) ==
    /\ call[c].pc = "i_bleve"
    /\ \E ok \in BOOLEAN :
         LET k == call[c] IN
         IF ok
         THEN /\ bleveDocs' = bleveDocs \cup {k.oldSlug}
              /\ call' = [call EXCEPT ![c] =
                     [Logged(k, "bleve.Index", NoErr) EXCEPT !.pc = "done"]]
         ELSE /\ bleveDocs' = bleveDocs
              /\ call' = [call EXCEPT ![c] =
                     [Logged(k, "bleve.Index", ErrBleve) EXCEPT !.pc = "done",
                         !.err = Wrap("failed to index post in bleve", OsErr(ErrBleve))]]
    /\ UNCHANGED <<boltPosts, boltTax, idx>>

IndexCaller(c) ==
    \/ \E doc \in RaceDocs : BeginIndexPost(c, doc)
    \/ BeginDeIndexPost(c, PageID("pages", "a"))
    \/ DeIndexGet(c) \/ DeIndexTx(c) \/ DeIndexBleve(c)
    \/ IndexGet(c) \/ IndexTx(c) \/ IndexBleve(c)
    \/ Return(c) /\ UNCHANGED boltVars

\* two callers of the index running concurrently
NextRace ==
    /\ \E c \in Callers : IndexCaller(c)
    /\ UNCHANGED <<files, posts, walk, ret, threeVars>>

SpecRace == Init /\ [][NextRace]_vars

\* the step of caller c is the bolt transaction of its DeIndexPost
DeIndexCommits(c) == call[c].pc = "x_tx" /\ call'[c].pc = "x_bleve"

\* C33: with DeIndexPost and IndexPost of one PostID running concurrently, the
\* transaction of DeIndexPost decrements exactly the terms of the record it removes:
\* the record read to compute the decrements is the record stored when it is deleted.
C33_DeIndexRemovesWhatItRead ==
    [][ \A c \in Callers :
          DeIndexCommits(c) =>
            /\ call[c].oldSlug \in DOMAIN boltPosts
            /\ call[c].got = boltPosts[call[c].oldSlug] ]_vars


-----------------------------------------------------------------------------
(* The pages of a Search with the pinned split *)

\* C34: with the pinned split, a Search for any page from 1 to ceil(total / pageSize),
\* total being the number of posts that pass the filter, does not panic and returns a
\* page: the pinned posts followed by at most pageSize others.
C34_PinnedPagesInRange ==
    LET total == Cardinality(Filtered(posts, ret.options))
        size  == PageSizeOf(ret.options) IN
    (ret.op = "Search" /\ ret.options.SplitPinned
        /\ ret.options.PageNum \in 1..Ceil(total, size))
    => /\ ~ret.panic
       /\ ret.err = NoErr
       /\ ret.total = total
       /\ Len(ret.posts) <= Cardinality({p \in Filtered(posts, ret.options) : p.Pinned}) + size


-----------------------------------------------------------------------------
(* Update onto an identity that another post holds *)

\* C35: a successful Update of the in-memory store never changes the number of stored
\* posts: when the new identity differs from the old one and another post holds it,
\* that post is neither removed nor overwritten.
C35_UpdateKeepsOtherPosts ==
    [][ (ret'.op = "Update" /\ ret'.err = NoErr) =>
          /\ Cardinality(DOMAIN posts') = Cardinality(DOMAIN posts)
          /\ \A key \in DOMAIN posts :
               key # makeKey(ret'.oldType, ret'.oldSlug) =>
                 (key \in DOMAIN posts' /\ posts'[key] = posts[key]) ]_vars


-----------------------------------------------------------------------------
(* bbolt first, bleve second *)

\* the call caller c makes on a collaborator in this step, if it makes one
CallsNow(c, what) ==
    /\ Len(call'[c].log) = Len(call[c].log) + 1
    /\ what = call'[c].log[Len(call'[c].log)].call

-----------------------------------------------------------------------------
(* MemoryCacheStore under its sync.RWMutex: each method is the taking of the lock, the
   steps on the map, and the release *)

\* a call on the store by a goroutine: absent tells whether the identity of a Create was
\* missing from the map when the call began, during tells which goroutines' calls of
\* Create on that identity ran at the same time as this one, seen is what a Get or a
\* Search read
MemCall(op, pc, oldType, oldSlug, post) ==
    [op |-> op, pc |-> pc, oldType |-> oldType, oldSlug |-> oldSlug, post |-> post,
     err |-> NoErr, seen |-> EmptyMap,
     absent |-> makeKey(post.PostType, post.Slug) \notin DOMAIN posts,
     during |-> {d \in Callers :
                   /\ call[d].op = "Create" /\ call[d].pc \notin {"idle", "done"}
                   /\ makeKey(call[d].post.PostType, call[d].post.Slug)
                        = makeKey(post.PostType, post.Slug)}]

\* the goroutine holds m.mu for writing, or for reading
HoldsLock(k)  == k.pc \in {"m_create", "m_check", "m_delete", "m_put", "m_remove", "m_unlock"}
HoldsRLock(k) == k.pc \in {"m_get", "m_search", "m_runlock"}

\* where a method goes on once it holds the lock
LockedStep(op) ==
    CASE op = "Create" -> "m_create"
      [] op = "Update" -> "m_check"
      [] op = "Delete" -> "m_remove"
      [] op = "Get"    -> "m_get"
      [] op = "Search" -> "m_search"

\* m.mu.Lock() that lets the goroutine in whoever holds the lock
LockUnguarded(c) ==
    /\ call[c].pc = "m_lock"
    /\ call' = [call EXCEPT ![c] = [@ EXCEPT !.pc = LockedStep(call[c].op)]]
    /\ UNCHANGED posts

\* m.mu.Lock(): nobody else holds the lock, for writing or for reading
Lock(c) ==
    /\ call[c].pc = "m_lock"
    /\ \A d \in Callers \ {c} : ~HoldsLock(call[d]) /\ ~HoldsRLock(call[d])
    /\ call' = [call EXCEPT ![c] = [@ EXCEPT !.pc = LockedStep(call[c].op)]]
    /\ UNCHANGED posts

\* m.mu.RLock(): nobody else holds the lock for writing
RLock(c) ==
    /\ call[c].pc = "m_rlock"
    /\ \A d \in Callers \ {c} : ~HoldsLock(call[d])
    /\ call' = [call EXCEPT ![c] = [@ EXCEPT !.pc = LockedStep(call[c].op)]]
    /\ UNCHANGED posts

\* defer m.mu.Unlock() / m.mu.RUnlock(): the method returns
Unlock(c) ==
    /\ call[c].pc \in {"m_unlock", "m_runlock"}
    /\ call' = [call EXCEPT ![c] = [@ EXCEPT !.pc = "done"]]
    /\ UNCHANGED posts

BeginMem(c, op, oldType, oldSlug, post) ==
    /\ call[c].pc = "idle"
    /\ LET k == MemCall(op, IF op \in {"Get", "Search"} THEN "m_rlock" ELSE "m_lock",
                        oldType, oldSlug, post) IN
       call' = [d \in Callers |->
                  IF d = c THEN k
                  ELSE IF op = "Create" /\ d \in k.during
                       THEN [call[d] EXCEPT !.during = @ \cup {c}]
                       ELSE call[d]]
    /\ UNCHANGED posts

\* Create: the existence check and the assignment
LockedCreate(c) ==
    /\ call[c].pc = "m_create"
    /\ LET k == call[c]
           r == MemCreate(posts, k.post) IN
       /\ posts' = r.posts
       /\ call' = [call EXCEPT ![c] = [k EXCEPT !.pc = "m_unlock", !.err = r.err]]

\* Update: the existence check, delete(m.posts, key), m.posts[newKey] = post
LockedUpdateCheck(c) ==
    /\ call[c].pc = "m_check"
    /\ LET k == call[c] IN
       call' = [call EXCEPT ![c] =
           IF makeKey(k.oldType, k.oldSlug) \notin DOMAIN posts
           THEN [k EXCEPT !.pc = "m_unlock", !.err = ErrNotFound]
           ELSE [k EXCEPT !.pc = "m_delete"]]
    /\ UNCHANGED posts

LockedUpdateDelete(c) ==
    /\ call[c].pc = "m_delete"
    /\ posts' = MapDelete(posts, makeKey(call[c].oldType, call[c].oldSlug))
    /\ call' = [call EXCEPT ![c] = [@ EXCEPT !.pc = "m_put"]]

LockedUpdatePut(c) ==
    /\ call[c].pc = "m_put"
    /\ posts' = MapPut(posts, makeKey(call[c].post.PostType, call[c].post.Slug),
                       call[c].post)
    /\ call' = [call EXCEPT ![c] = [@ EXCEPT !.pc = "m_unlock"]]

LockedDelete(c) ==
    /\ call[c].pc = "m_remove"
    /\ LET k == call[c]
           r == MemDelete(posts, k.oldType, k.oldSlug) IN
       /\ posts' = r.posts
       /\ call' = [call EXCEPT ![c] = [k EXCEPT !.pc = "m_unlock", !.err = r.err]]

LockedGet(c) ==
    /\ call[c].pc = "m_get"
    /\ LET k == call[c]
           r == MemGet(posts, k.oldType, k.oldSlug) IN
       call' = [call EXCEPT ![c] =
           [k EXCEPT !.pc = "m_runlock", !.err = r.err,
                     !.seen = IF r.err = NoErr
                              THEN MapPut(EmptyMap, makeKey(k.oldType, k.oldSlug), r.post)
                              ELSE EmptyMap]]
    /\ UNCHANGED posts

\* Search: the range over the map
LockedSearch(c) ==
    /\ call[c].pc = "m_search"
    /\ call' = [call EXCEPT ![c] = [@ EXCEPT !.pc = "m_runlock", !.seen = posts]]
    /\ UNCHANGED posts

Goroutine(c) ==
    \/ \E p \in CoordPosts : BeginMem(c, "Create", "", "", p)
    \/ \E t \in PostTypes, s \in CoordSlugs, p \in CoordPosts : BeginMem(c, "Update", t, s, p)
    \/ \E t \in PostTypes, s \in CoordSlugs : BeginMem(c, "Delete", t, s, NoPost)
    \/ \E t \in PostTypes, s \in CoordSlugs : BeginMem(c, "Get", t, s, NoPost)
    \/ BeginMem(c, "Search", "", "", NoPost)
    \/ Lock(c) \/ RLock(c) \/ Unlock(c)
    \/ LockedCreate(c)
    \/ LockedUpdateCheck(c) \/ LockedUpdateDelete(c) \/ LockedUpdatePut(c)
    \/ LockedDelete(c) \/ LockedGet(c) \/ LockedSearch(c)
    \/ Return(c) /\ posts' = posts

\* the goroutines that call the store concurrently
NextLock ==
    /\ \E c \in Callers : Goroutine(c)
    /\ UNCHANGED <<files, walk, ret, boltVars, threeVars>>

SpecLock == Init /\ [][NextLock]_vars


\* both goroutines have returned from a Create of one identity, and one of the calls began
\* while the other was under way
SameCreates ==
    /\ Done("c1", "Create") /\ Done("c2", "Create")
    /\ "c2" \in call["c1"].during /\ "c1" \in call["c2"].during

\* a goroutine is inside a method that writes the map, or inside one that reads it
Writing(c) == call[c].op \in {"Create", "Update", "Delete"} /\ HoldsLock(call[c])
Reading(c) == call[c].op \in {"Get", "Search"} /\ HoldsRLock(call[c])

\* C37: of two concurrent Creates of one identity that was missing, exactly one succeeds,
\* the other fails with the already-exists error and the stored post is the one of the
\* successful call; and while a Get or a Search reads the map no Create, Update or Delete
\* is under way, nor are two of these under way at once
C37_CreateOnceAndWholeWrites ==
    /\ SameCreates =>
         LET k1  == call["c1"]
             k2  == call["c2"]
             key == makeKey(k1.post.PostType, k1.post.Slug) IN
         /\ ~(k1.err = NoErr /\ k2.err = NoErr)
         /\ (k1.absent /\ k2.absent) => (k1.err = NoErr \/ k2.err = NoErr)
         /\ \A k \in {k1, k2} : k.err # NoErr => k.err = ErrExists
         /\ \A k \in {k1, k2} : k.err = NoErr => key \in DOMAIN posts /\ posts[key] = k.post
    /\ \A c \in Callers : \A d \in Callers \ {c} :
         Writing(c) => ~Writing(d) /\ ~Reading(d)

\* two Creates of one missing identity with different posts that ran at the same time,
\* both returned
C37_Witness ==
    /\ SameCreates
    /\ call["c1"].absent /\ call["c2"].absent
    /\ call["c1"].post # call["c2"].post

\* a Search that read the map while an Update waited for the lock
C37_ReaderWitness ==
    /\ call["c1"].op = "Search" /\ call["c1"].pc = "m_runlock"
    /\ call["c2"].op = "Update" /\ call["c2"].pc = "m_lock"


-----------------------------------------------------------------------------
(* Post.HasPublished, PublishedTime and PublishedYear on the three forms of a date *)

LayoutDate     == "2006-01-02"
LayoutDateTime == "2006-01-02 15:04:05"
LayoutRFC3339  == "2006-01-02T15:04:05Z07:00"

\* Post.Published, a sql.NullString: the text is written in one of the layouts (form), or
\* in none of them, and names a day and a second of that day
NullString(valid, form, year, month, day, sec) ==
    [Valid |-> valid, form |-> form, year |-> year, month |-> month, day |-> day,
     sec |-> sec]

\* the instant a text names, as a time.Time that compareTime can order: the seconds since
\* the year 2000 in months of 31 days, which is never the zero time for a later year
InstantOf(s) ==
    (((s.year - 2000) * 12 + (s.month - 1)) * 31 + (s.day - 1)) * 86400 + s.sec

\* Time.Year
YearOf(time) == 2000 + (time \div 86400) \div (12 * 31)

\* time.Parse(layout, text): a text written in another layout is an error, and the time
\* returned with an error is the zero time
TimeParse(layout, s) ==
    IF s.form = layout
    THEN [time |-> InstantOf(s), err |-> FALSE]
    ELSE [time |-> ZeroTime, err |-> TRUE]

\* Post.HasPublished on a Published text: what it returns and what it leaves in
\* publishedTime (cached is the field's value before the call)
HasPublishedOn(s, cached) ==
    IF ~s.Valid
    THEN [has |-> FALSE, publishedTime |-> cached]
    ELSE LET first  == TimeParse(LayoutDate, s)
             second == TimeParse(LayoutDateTime, s)
             third  == TimeParse(LayoutRFC3339, s) IN
         IF ~first.err /\ ~second.err /\ third.err
         THEN [has |-> FALSE, publishedTime |-> cached]
         ELSE LET dt == IF first.err THEN first.time
                        ELSE IF second.err THEN second.time
                        ELSE third.time IN
              [has |-> dt # ZeroTime, publishedTime |-> dt]

\* Post.PublishedTime
PublishedTimeOn(s) ==
    LET r == HasPublishedOn(s, ZeroTime) IN
    IF r.has THEN r.publishedTime ELSE ZeroTime

\* Post.PublishedYear
PublishedYearOn(s) ==
    LET r == HasPublishedOn(s, ZeroTime) IN
    IF ~r.has THEN 0 ELSE YearOf(r.publishedTime)

\* the texts tried: no date, a text in no layout, and days of 2023 and 2024 in each of the
\* three layouts, with and without a time of day
PublishedTexts ==
    {NullString(FALSE, "", 0, 0, 0, 0), NullString(TRUE, "August 1st", 2024, 8, 1, 0)}
    \cup {NullString(TRUE, LayoutDate, y, m, d, 0) :
            y \in {2023, 2024}, m \in {1, 8}, d \in {1, 28}}
    \cup {NullString(TRUE, f, y, m, d, sec) :
            f \in {LayoutDateTime, LayoutRFC3339},
            y \in {2023, 2024}, m \in {1, 8}, d \in {1, 28}, sec \in {0, 36000}}

\* the methods called on a post, and the comparison sortPosts makes of it with another
PublishedCall(a, b) ==
    /\ ret' = [op |-> "HasPublished", a |-> a, b |-> b,
               has |-> HasPublishedOn(a, ZeroTime).has,
               time |-> PublishedTimeOn(a),
               year |-> PublishedYearOn(a),
               comparison |-> compareTime(PublishedTimeOn(a), PublishedTimeOn(b))]
    /\ UNCHANGED posts

NextPublished ==
    /\ \E a \in PublishedTexts, b \in PublishedTexts : PublishedCall(a, b)
    /\ UNCHANGED <<coordVars, boltVars, threeVars>>

SpecPublished == Init /\ [][NextPublished]_vars

\* the text is a valid date in one of the three layouts
IsPublishedDate(s) == s.Valid /\ s.form \in {LayoutDate, LayoutDateTime, LayoutRFC3339}

\* C38: for a Published text that is valid and written in one of the three layouts,
\* HasPublished returns true, PublishedTime returns the date the text names and
\* PublishedYear its year; two posts with dates that differ compare as different under
\* the "published" sort key
C38_PublishedIsParsed ==
    ret.op = "HasPublished" =>
       /\ IsPublishedDate(ret.a) =>
            /\ ret.has
            /\ ret.time = InstantOf(ret.a)
            /\ ret.year = ret.a.year
       /\ IsPublishedDate(ret.a) /\ IsPublishedDate(ret.b)
            /\ InstantOf(ret.a) # InstantOf(ret.b)
          => ret.comparison # 0


\* the terms stored under a taxonomy: the rest of each key "taxonomy:term" of the bucket
TermsUnder(tax, taxonomy) ==
    {term \in Terms : taxKey(taxonomy, term) \in DOMAIN tax}

\* C39: GetTaxonomyTerms(T) returns only terms stored under taxonomy T; when another
\* stored taxonomy's name has T as a proper prefix, none of that taxonomy's entries are
\* in the result
C39_TermsOfOneTaxonomy ==
    \A t \in TaxNames : GetTaxonomyTerms(boltTax, t) \subseteq TermsUnder(boltTax, t)


-----------------------------------------------------------------------------
(* SQLiteStore: the posts table with its _properties and _taxonomies tables *)

\* a row of the posts table, of the _properties table, of the _taxonomies table; the
\* post_id column of the two child tables is TEXT and is given the integer id of the post
PostRow(id, post) ==
    [table |-> "posts", id |-> id, post_id |-> PostPathID(post.PostType, post.Slug),
     post_type |-> post.PostType, slug |-> post.Slug]

PropertyRow(id, key, value) ==
    [table |-> "properties", post_id |-> ToString(id), key |-> key, value |-> value]

TaxonomyRow(id, taxonomy, term) ==
    [table |-> "taxonomies", post_id |-> ToString(id), taxonomy |-> taxonomy,
     term |-> term]

Table(rows, name) == {r \in rows : r.table = name}

\* a *Post as Create returns it and as GetPostByPath scans it: ID is the integer key of
\* the row, PostID the path of the post
StoredPost(id, post) ==
    [ID |-> id, PostID |-> PostPathID(post.PostType, post.Slug),
     PostType |-> post.PostType, Slug |-> post.Slug,
     Taxonomies |-> post.Taxonomies, Properties |-> post.Properties]

\* REPLACE INTO _properties: PRIMARY KEY(post_id, key)
insertProperties(rows, post) ==
    LET new == {PropertyRow(post.ID, k, post.Properties[k]) : k \in DOMAIN post.Properties}
    IN  {r \in rows : ~(/\ r.table = "properties"
                        /\ \E n \in new : n.post_id = r.post_id /\ n.key = r.key)}
        \cup new

\* REPLACE INTO _taxonomies: PRIMARY KEY(post_id, taxonomy, term)
insertTaxonomies(rows, post) ==
    rows \cup UNION { {TaxonomyRow(post.ID, t, term) : term \in post.Taxonomies[t]} :
                      t \in DOMAIN post.Taxonomies }

\* SQLiteStore.Create of a post whose identity no row holds
SqlCreateRows(rows, nextId, post) ==
    LET stored == StoredPost(nextId, post) IN
    [rows   |-> insertTaxonomies(
                   insertProperties(rows \cup {PostRow(nextId, post)}, stored), stored),
     nextId |-> nextId + 1,
     post   |-> stored,
     err    |-> NoErr]

\* DELETE FROM _properties WHERE post_id = ? as Update runs it: given post.PostID
DeleteProperties(rows, post) ==
    {r \in rows : ~(r.table = "properties" /\ r.post_id = post.PostID)}

\* DELETE FROM _taxonomies WHERE post_id = ?, given post.ID
DeleteTaxonomies(rows, post) ==
    {r \in rows : ~(r.table = "taxonomies" /\ r.post_id = ToString(post.ID))}

\* SQLiteStore.Update of a post that keeps its type and slug: the UPDATE of the row, then
\* the properties and the taxonomies are deleted and inserted
SqlUpdateRows(rows, post) ==
    LET hit == {r \in Table(rows, "posts") : r.post_id = post.PostID}
        r1  == (rows \ hit)
                 \cup {[r EXCEPT !.slug = post.Slug, !.post_type = post.PostType] :
                         r \in hit}
        r2  == insertProperties(DeleteProperties(r1, post), post)
        r3  == insertTaxonomies(DeleteTaxonomies(r2, post), post) IN
    [rows |-> r3, err |-> NoErr]

\* SQLiteStore.GetPostByPath: the row by post_id, its properties and its taxonomies by id
GetPostByPath(rows, postID) ==
    LET hit == {r \in Table(rows, "posts") : r.post_id = postID} IN
    IF hit = {} THEN [post |-> NoPost, err |-> ErrNotFound]
    ELSE LET r     == CHOOSE x \in hit : TRUE
             props == {p \in Table(rows, "properties") : p.post_id = ToString(r.id)}
             taxes == {x \in Table(rows, "taxonomies") : x.post_id = ToString(r.id)} IN
         [post |-> [ID |-> r.id, PostID |-> r.post_id,
                    PostType |-> r.post_type, Slug |-> r.slug,
                    Taxonomies |->
                        [t \in {x.taxonomy : x \in taxes} |->
                            {x.term : x \in {y \in taxes : y.taxonomy = t}}],
                    Properties |->
                        [k \in {p.key : p \in props} |->
                            (CHOOSE p \in props : p.key = k).value]],
          err |-> NoErr]

\* the posts given to the store: two identities, each with some properties and taxonomies
RowPosts ==
    {KvPost(t, "a", tx, pr) :
        t \in PostTypes,
        tx \in {EmptyMap, [tags |-> {"x"}], [tags |-> {"x", "y"}], [cat |-> {"n"}]},
        pr \in {EmptyMap, [series |-> "foo"], [series |-> "bar"], [lang |-> "en"],
                [series |-> "foo", lang |-> "en"]}}

RowsCreate(p) ==
    LET q == SqlCreateRows(sqlRows, sqlNextId, p) IN
    /\ GetPostByPath(sqlRows, PostPathID(p.PostType, p.Slug)).err # NoErr
    /\ sqlRows' = q.rows
    /\ sqlNextId' = q.nextId
    /\ three' = [op |-> "Create", arg |-> q.post, err |-> q.err]

\* the caller changes the properties and the taxonomies of the post it was given by the
\* store and hands it to Update
RowsUpdate(p) ==
    LET got  == GetPostByPath(sqlRows, PostPathID(p.PostType, p.Slug))
        post == [got.post EXCEPT !.Properties = p.Properties,
                                 !.Taxonomies = p.Taxonomies]
        q    == SqlUpdateRows(sqlRows, post) IN
    /\ got.err = NoErr
    /\ sqlRows' = q.rows
    /\ three' = [op |-> "Update", arg |-> post, err |-> q.err]
    /\ UNCHANGED sqlNextId

NextRows ==
    /\ \/ \E p \in RowPosts : RowsCreate(p)
       \/ \E p \in RowPosts : RowsUpdate(p)
    /\ UNCHANGED <<memVars, coordVars, boltVars, bbsPosts, bbsBleve>>

SpecRows == Init /\ [][NextRows]_vars

\* C40: after an Update, reading the post back yields exactly the properties and the
\* taxonomy terms of the updated post, with no property key or term left over from
\* before the update
C40_UpdateReplacesSets ==
    (three.op = "Update" /\ three.err = NoErr) =>
       LET back == GetPostByPath(sqlRows, three.arg.PostID) IN
       /\ back.err = NoErr
       /\ back.post.Properties = three.arg.Properties
       /\ back.post.Taxonomies = three.arg.Taxonomies

\* the part of C40 that holds: the taxonomy terms read back are those of the updated post
C40_UpdateReplacesTaxonomies ==
    (three.op = "Update" /\ three.err = NoErr) =>
       GetPostByPath(sqlRows, three.arg.PostID).post.Taxonomies = three.arg.Taxonomies

====
